---- MODULE Spec2Model ----
(***************************************************************************)
(* Model of the Reclaim.ai MCP server client (src/src/reclaim-client.ts),  *)
(* its task create/update tools (tools/taskCrud.ts), its task listing      *)
(* (tools/taskActions.ts, resources/tasks.ts) and its startup bootstrap    *)
(* (index.ts).                                                             *)
(*                                                                         *)
(* Six specifications share this module:                                   *)
(*   Spec      the JavaScript event loop running the bootstrap and the     *)
(*             client operations against the shared current-user cache;    *)
(*   SpecOps   the same with operations whose arguments make them fail;    *)
(*   SpecTime  parseDeadline applied to bounded date/time inputs;          *)
(*   SpecNorm  the create/update tool handlers, and the client functions   *)
(*             called directly, on bounded task inputs and defaults;       *)
(*   SpecList  the task list tool and the active tasks resource on         *)
(*             bounded answers of the service;                             *)
(*   SpecServer  main() choosing the transport from the environment, and   *)
(*             the route handlers of the Streamable HTTP session mode.     *)
(***************************************************************************)
EXTENDS Integers, Sequences, FiniteSets, TLC

(***************************************************************************)
(* Bounds of the model.                                                    *)
(***************************************************************************)
\* local wall-clock hours 0..MaxHour are enumerated on every modelled date
MaxHour == 3

(***************************************************************************)
(* Values.                                                                 *)
(***************************************************************************)
\* JavaScript undefined
Undefined == "<undefined>"

\* an instant: milliseconds since the epoch, kept as whole seconds and the
\* millisecond remainder (TLC integers are 32 bits wide)
Inst(sec, msec) == [s |-> sec, ms |-> msec]

\* Date arithmetic: date.getTime() + k
AddMs(d, k) ==
  LET total == d.ms + k
  IN  Inst(d.s + (total \div 1000), total % 1000)

\* a.getTime() - b.getTime(), for instants less than a few days apart
DiffMs(a, b) == (a.s - b.s) * 1000 + (a.ms - b.ms)

InstLT(a, b) == a.s < b.s \/ (a.s = b.s /\ a.ms < b.ms)

(***************************************************************************)
(* The proleptic Gregorian calendar of the JavaScript Date object.         *)
(***************************************************************************)
\* days from 1970-01-01 to y-m-d, for m in 1..12 and any integer d
DaysFromCivil(y, m, d) ==
  LET yy  == IF m <= 2 THEN y - 1 ELSE y
      era == yy \div 400
      yoe == yy - era * 400
      mp  == IF m > 2 THEN m - 3 ELSE m + 9
      doy == ((153 * mp + 2) \div 5) + d - 1
      doe == yoe * 365 + (yoe \div 4) - (yoe \div 100) + doy
  IN  era * 146097 + doe - 719468

\* Date.UTC(year, month - 1, day, hour, minute, second), in seconds: every
\* component overflows into the next larger one
DateUTC(year, month, day, hour, minute, second) ==
  LET y == year + ((month - 1) \div 12)
      m == ((month - 1) % 12) + 1
  IN  DaysFromCivil(y, m, 1) * 86400 + (day - 1) * 86400
        + hour * 3600 + minute * 60 + second

\* getUTCFullYear() .. getUTCSeconds() of the instant sec seconds after the
\* epoch, in four steps: the day of the era, the year of the era, the day of
\* the year, the month
PartsOfMonth(era, yoe, doy, mp, rem) ==
  [year |-> yoe + era * 400 + (IF mp < 10 THEN 0 ELSE 1),
   month |-> IF mp < 10 THEN mp + 3 ELSE mp - 9,
   day |-> doy - ((153 * mp + 2) \div 5) + 1,
   hour |-> rem \div 3600, minute |-> (rem % 3600) \div 60, second |-> rem % 60]

PartsOfDayOfYear(era, yoe, doy, rem) ==
  PartsOfMonth(era, yoe, doy, (5 * doy + 2) \div 153, rem)

PartsOfYearOfEra(era, doe, yoe, rem) ==
  PartsOfDayOfYear(era, yoe, doe - (365 * yoe + (yoe \div 4) - (yoe \div 100)), rem)

PartsOfDayOfEra(era, doe, rem) ==
  PartsOfYearOfEra(era, doe,
    (doe - (doe \div 1460) + (doe \div 36524) - (doe \div 146096)) \div 365, rem)

PartsOfDays(z, rem) == PartsOfDayOfEra(z \div 146097, z - (z \div 146097) * 146097, rem)

UTCParts(sec) == PartsOfDays((sec \div 86400) + 719468, sec % 86400)

WithMilliseconds(p, msec) ==
  [year |-> p.year, month |-> p.month, day |-> p.day, hour |-> p.hour,
   minute |-> p.minute, second |-> p.second, ms |-> msec]

\* Date.prototype.toISOString: the UTC components with the milliseconds
ToISOString(d) == WithMilliseconds(UTCParts(d.s), d.ms)

Iso(y, m, d, h, mi, s, msec) ==
  [year |-> y, month |-> m, day |-> d, hour |-> h, minute |-> mi, second |-> s,
   ms |-> msec]

(***************************************************************************)
(* The time zone database behind Intl.DateTimeFormat, for the year 2026.   *)
(***************************************************************************)
ValidZones ==
  {"UTC", "America/Los_Angeles", "America/New_York", "Europe/Berlin",
   "Australia/Lord_Howe", "Antarctica/Troll", "America/Havana"}

\* the two transitions of 2026 as UTC seconds, the offset in seconds between
\* them and the offset in the rest of the year:
\*   America/Los_Angeles  2026-03-08T10:00Z .. 2026-11-01T09:00Z  -07:00, else -08:00
\*   America/New_York     2026-03-08T07:00Z .. 2026-11-01T06:00Z  -04:00, else -05:00
\*   Europe/Berlin        2026-03-29T01:00Z .. 2026-10-25T01:00Z  +02:00, else +01:00
\*   Australia/Lord_Howe  2026-04-04T15:00Z .. 2026-10-03T15:30Z  +10:30, else +11:00
\*   Antarctica/Troll     2026-03-29T01:00Z .. 2026-10-25T01:00Z  +02:00, else +00:00
\*   America/Havana       2026-03-08T05:00Z .. 2026-11-01T05:00Z  -04:00, else -05:00
\* Antarctica/Troll shifts by two hours; America/Havana shifts at local midnight
ZoneRule(tz) ==
  CASE tz = "America/Los_Angeles" ->
         [from |-> 1772964000, to |-> 1793523600, between |-> -25200, else |-> -28800]
    [] tz = "America/New_York" ->
         [from |-> 1772953200, to |-> 1793512800, between |-> -14400, else |-> -18000]
    [] tz = "Europe/Berlin" ->
         [from |-> 1774746000, to |-> 1792890000, between |-> 7200, else |-> 3600]
    [] tz = "Australia/Lord_Howe" ->
         [from |-> 1775314800, to |-> 1791041400, between |-> 37800, else |-> 39600]
    [] tz = "Antarctica/Troll" ->
         [from |-> 1774746000, to |-> 1792890000, between |-> 7200, else |-> 0]
    [] tz = "America/Havana" ->
         [from |-> 1772946000, to |-> 1793509200, between |-> -14400, else |-> -18000]
    [] OTHER -> [from |-> 0, to |-> 0, between |-> 0, else |-> 0]

RuleOffset(rule, sec) ==
  IF rule.from <= sec /\ sec < rule.to THEN rule.between ELSE rule.else

\* the zone's UTC offset, in seconds, at the instant sec
ZoneOffsetSec(tz, sec) == RuleOffset(ZoneRule(tz), sec)

RuleOffsets(rule) == {rule.between, rule.else}

\* the offsets a zone takes in 2026
ZoneOffsets(tz) == RuleOffsets(ZoneRule(tz))

(***************************************************************************)
(* reclaim-client.ts: local time to UTC.                                   *)
(***************************************************************************)
\* the calendar fields of an instant on the wall clock of a zone
LocalParts(date, timeZone) == UTCParts(date.s + ZoneOffsetSec(timeZone, date.s))

\* Intl.DateTimeFormat("en-US", {hour12: false, ...}) resolves its hour cycle
\* by the engine's ICU data: "h23" renders the hour after midnight as 00,
\* "h24" renders it as 24 and leaves the day as it is.  Node 18 and 20 give
\* h24, Node 22 gives h23; the README asks for Node 18 or later.
HourCycles == {"h23", "h24"}

\* the hour cycle of the engine the process runs on: fixed when the process starts
VARIABLE hourCycle

\* the wall-clock rendering of an instant in a zone, to the second, as
\* formatToParts gives it
getZonedParts(date, timeZone) ==
  LET local == LocalParts(date, timeZone)
  IN  IF hourCycle = "h24" /\ local.hour = 0
        THEN [local EXCEPT !.hour = 24]
        ELSE local

\* in seconds: the parts carry no milliseconds
partsToUtcMillis(parts) ==
  DateUTC(parts.year, parts.month, parts.day, parts.hour, parts.minute, parts.second)

partsMatch(a, b) ==
  /\ a.year = b.year
  /\ a.month = b.month
  /\ a.day = b.day
  /\ a.hour = b.hour
  /\ a.minute = b.minute
  /\ a.second = b.second

\* in milliseconds
getTimeZoneOffset(date, timeZone) ==
  DiffMs(Inst(partsToUtcMillis(getZonedParts(date, timeZone)), 0), date)

\* Set.prototype.add on a set kept in insertion order
SetAdd(seq, v) == IF \E i \in DOMAIN seq : seq[i] = v THEN seq ELSE Append(seq, v)

\* the body of the loop over the offsets, for the candidate of one offset
OffsetsAround(offsets, candidate, timeZone) ==
  SetAdd(SetAdd(SetAdd(offsets, getTimeZoneOffset(candidate, timeZone)),
                getTimeZoneOffset(AddMs(candidate, 3600000), timeZone)),
         getTimeZoneOffset(AddMs(candidate, -3600000), timeZone))

\* the loop runs over a snapshot of the set, which holds the first offset only
OffsetsFrom(utcGuess, first, timeZone) ==
  OffsetsAround(<<first>>, AddMs(utcGuess, 0 - first), timeZone)

\* the candidate offsets, in insertion order
CandidateOffsets(utcGuess, timeZone) ==
  OffsetsFrom(utcGuess, getTimeZoneOffset(utcGuess, timeZone), timeZone)

Abs(n) == IF n < 0 THEN 0 - n ELSE n

\* the earliest of a non-empty set of instants
EarliestOf(S) == CHOOSE d \in S : \A e \in S : ~InstLT(e, d)

\* one candidate: its instant, its rendering in the zone read as UTC seconds
\* (naive), and whether it renders as the desired wall-clock time
Candidate(date, parts, desiredParts) ==
  [date |-> date, naive |-> partsToUtcMillis(parts),
   matches |-> partsMatch(parts, desiredParts)]

Candidates(utcGuess, offsets, timeZone, desiredParts) ==
  [i \in DOMAIN offsets |->
     Candidate(AddMs(utcGuess, 0 - offsets[i]),
               getZonedParts(AddMs(utcGuess, 0 - offsets[i]), timeZone),
               desiredParts)]

\* a variant without the preference for the candidates at or after the
\* desired wall-clock time
SelectCandidateClosest(candidates, desiredNaive) ==
  LET matching == {i \in DOMAIN candidates : candidates[i].matches}
      Closer(i, j) ==
        \/ Abs(candidates[i].naive - desiredNaive) < Abs(candidates[j].naive - desiredNaive)
        \/ /\ Abs(candidates[i].naive - desiredNaive) = Abs(candidates[j].naive - desiredNaive)
           /\ i < j
  IN  IF matching # {}
        THEN EarliestOf({candidates[i].date : i \in matching})
        ELSE candidates[CHOOSE i \in DOMAIN candidates :
                          \A j \in (DOMAIN candidates) \ {i} : Closer(i, j)].date

\* the matching candidates sorted by date, else the later candidates sorted by
\* distance and date, else the first candidate of the least distance
SelectCandidate(candidates, desiredNaive) ==
  LET matching == {i \in DOMAIN candidates : candidates[i].matches}
      after    == {i \in DOMAIN candidates : candidates[i].naive >= desiredNaive}
      Before(i, j) ==
        \/ candidates[i].naive - desiredNaive < candidates[j].naive - desiredNaive
        \/ /\ candidates[i].naive - desiredNaive = candidates[j].naive - desiredNaive
           /\ InstLT(candidates[i].date, candidates[j].date)
      Closer(i, j) ==
        \/ Abs(candidates[i].naive - desiredNaive) < Abs(candidates[j].naive - desiredNaive)
        \/ /\ Abs(candidates[i].naive - desiredNaive) = Abs(candidates[j].naive - desiredNaive)
           /\ i < j
  IN  IF matching # {}
        THEN EarliestOf({candidates[i].date : i \in matching})
        ELSE IF after # {}
          THEN candidates[CHOOSE i \in after : \A j \in after \ {i} : Before(i, j)].date
          ELSE candidates[CHOOSE i \in DOMAIN candidates :
                            \A j \in (DOMAIN candidates) \ {i} : Closer(i, j)].date

ResolveGuess(utcGuess, desiredParts, timeZone) ==
  SelectCandidate(Candidates(utcGuess, CandidateOffsets(utcGuess, timeZone),
                             timeZone, desiredParts),
                  partsToUtcMillis(desiredParts))

zonedTimeToUtc(year, month, day, hour, minute, second, millisecond, timeZone) ==
  ResolveGuess(Inst(DateUTC(year, month, day, hour, minute, second), millisecond),
               [year |-> year, month |-> month, day |-> day, hour |-> hour,
                minute |-> minute, second |-> second],
               timeZone)

(***************************************************************************)
(* reclaim-client.ts: time zone selection and validation.                  *)
(***************************************************************************)
\* String.prototype.trim on the time zone strings of the model
Trim(str) ==
  CASE str = " " -> ""
    [] str = " America/New_York " -> "America/New_York"
    [] OTHER -> str

\* a JavaScript truthy string (Undefined stands for undefined)
Truthy(str) == str # Undefined /\ str # ""

resolveTimeZone(timeZone, envTimeZone, cachedTimeZone, machineTimeZone) ==
  IF Truthy(timeZone) /\ Trim(timeZone) # "" THEN Trim(timeZone)
  ELSE IF Truthy(envTimeZone) THEN envTimeZone
  ELSE IF Truthy(cachedTimeZone) THEN cachedTimeZone
  ELSE machineTimeZone

\* a variant that takes every zone name
assertValidTimeZoneAny(timeZone) == TRUE

\* whether assertValidTimeZone returns: Intl.DateTimeFormat accepts the zone
assertValidTimeZone(timeZone) == timeZone \in ValidZones

(***************************************************************************)
(* reclaim-client.ts: parseDeadline.                                       *)
(***************************************************************************)
Ok(v)    == [ok |-> TRUE, value |-> v]
Fail(m)  == [ok |-> FALSE, error |-> m]

\* date/time strings, by the regular expression they match:
\*   "offset"  HAS_TIMEZONE_REGEX: date, time and a trailing Z or +hh:mm
\*   "local"   LOCAL_DATETIME_REGEX with a time of day
\*   "date"    LOCAL_DATETIME_REGEX without one
\*   "slash"   neither, a date written yyyy/mm/dd, which the engine reads
\*   "other"   neither, and no date the engine can read
\*   "empty"   the empty string
\* The offset is kept as written: its sign, its two digits of hours and its
\* two digits of minutes; Z is +00:00.  The separator of the date and the
\* time, T or a space, is kept as well: the engine reads the two differently.
StrLocal(y, m, d, h, mi, s, msec) ==
  [type |-> "string", form |-> "local", year |-> y, month |-> m, day |-> d,
   hour |-> h, minute |-> mi, second |-> s, ms |-> msec, offsetSign |-> 1, offsetHour |-> 0,
   offsetMinute |-> 0, separator |-> "T"]
StrDate(y, m, d) ==
  [type |-> "string", form |-> "date", year |-> y, month |-> m, day |-> d,
   hour |-> 0, minute |-> 0, second |-> 0, ms |-> 0, offsetSign |-> 1, offsetHour |-> 0,
   offsetMinute |-> 0, separator |-> "T"]
\* a string with the offset written as sign, hh and mm, whatever they are,
\* and the date and the time separated by T
StrWrittenOffset(y, m, d, h, mi, s, msec, sign, oh, om) ==
  [type |-> "string", form |-> "offset", year |-> y, month |-> m, day |-> d,
   hour |-> h, minute |-> mi, second |-> s, ms |-> msec, offsetSign |-> sign,
   offsetHour |-> oh, offsetMinute |-> om, separator |-> "T"]
\* the same with the date and the time separated by a space
StrSpacedOffset(y, m, d, h, mi, s, msec, sign, oh, om) ==
  [StrWrittenOffset(y, m, d, h, mi, s, msec, sign, oh, om) EXCEPT !.separator = " "]
\* a string with an offset of off minutes, written with minutes below 60
StrOffset(y, m, d, h, mi, s, msec, off) ==
  StrWrittenOffset(y, m, d, h, mi, s, msec, IF off < 0 THEN -1 ELSE 1,
                   (IF off < 0 THEN 0 - off ELSE off) \div 60,
                   (IF off < 0 THEN 0 - off ELSE off) % 60)
StrSlashDate(y, m, d) ==
  [type |-> "string", form |-> "slash", year |-> y, month |-> m, day |-> d,
   hour |-> 0, minute |-> 0, second |-> 0, ms |-> 0, offsetSign |-> 1, offsetHour |-> 0,
   offsetMinute |-> 0, separator |-> "T"]
StrOther ==
  [type |-> "string", form |-> "other", year |-> 0, month |-> 0, day |-> 0,
   hour |-> 0, minute |-> 0, second |-> 0, ms |-> 0, offsetSign |-> 1, offsetHour |-> 0,
   offsetMinute |-> 0, separator |-> "T"]
StrEmpty ==
  [type |-> "string", form |-> "empty", year |-> 0, month |-> 0, day |-> 0,
   hour |-> 0, minute |-> 0, second |-> 0, ms |-> 0, offsetSign |-> 1, offsetHour |-> 0,
   offsetMinute |-> 0, separator |-> "T"]
NumDays(n) == [type |-> "number", days |-> n]
NoInput == [type |-> "undefined"]

\* a variant that tests the range of each component and not the calendar
assertValidRangesOnly(p) ==
  IF p.month < 1 \/ p.month > 12 THEN "Invalid month in date/time"
  ELSE IF p.day < 1 \/ p.day > 31 THEN "Invalid day in date/time"
  ELSE IF p.hour < 0 \/ p.hour > 23 THEN "Invalid hour in date/time"
  ELSE IF p.minute < 0 \/ p.minute > 59 THEN "Invalid minute in date/time"
  ELSE IF p.second < 0 \/ p.second > 59 THEN "Invalid second in date/time"
  ELSE IF p.ms < 0 \/ p.ms > 999 THEN "Invalid milliseconds in date/time"
  ELSE ""

\* the error assertValidLocalDateTime throws, or "" when it returns
assertValidLocalDateTime(p) ==
  IF p.month < 1 \/ p.month > 12 THEN "Invalid month in date/time"
  ELSE IF p.day < 1 \/ p.day > 31 THEN "Invalid day in date/time"
  ELSE IF p.hour < 0 \/ p.hour > 23 THEN "Invalid hour in date/time"
  ELSE IF p.minute < 0 \/ p.minute > 59 THEN "Invalid minute in date/time"
  ELSE IF p.second < 0 \/ p.second > 59 THEN "Invalid second in date/time"
  ELSE IF p.ms < 0 \/ p.ms > 999 THEN "Invalid milliseconds in date/time"
  ELSE IF ~partsMatch(UTCParts(DateUTC(p.year, p.month, p.day, p.hour, p.minute,
                                       p.second)), p)
    THEN "Invalid date/time"
  ELSE ""

\* new Date(trimmed) of a string with an explicit offset: the engine takes day
\* 1..31 of any month and lets it roll over, takes hour 24 only as
\* 24:00:00.000, and takes minutes of the offset up to 59.  With the separator
\* T its ISO parser takes hours of the offset up to 23; with a space its
\* legacy parser reads the string and takes any two digits of hours.
ParseWithOffset(p) ==
  IF \/ p.month < 1 \/ p.month > 12 \/ p.day < 1 \/ p.day > 31
     \/ p.hour > 24 \/ p.minute > 59 \/ p.second > 59
     \/ (p.hour = 24 /\ (p.minute # 0 \/ p.second # 0 \/ p.ms # 0))
     \/ p.offsetMinute > 59
     \/ (p.separator = "T" /\ p.offsetHour > 23)
    THEN Fail("Invalid date format")
    ELSE Ok(ToISOString(Inst(DateUTC(p.year, p.month, p.day, p.hour, p.minute,
                                      p.second)
                               - p.offsetSign * (p.offsetHour * 60 + p.offsetMinute) * 60,
                             p.ms)))

\* the UTC instant of a local time of the machine's zone, as Date computes it:
\* the earlier instant of a repeated local time, and a skipped local time read
\* with the offset in force before the transition
LocalToUtc(localSec, machineTimeZone) ==
  LET offs == ZoneOffsets(machineTimeZone)
      occ  == {localSec - o : o \in {x \in offs :
                 ZoneOffsetSec(machineTimeZone, localSec - x) = x}}
      maxOff == CHOOSE o \in offs : \A x \in offs : x <= o
  IN  IF occ # {}
        THEN CHOOSE u \in occ : \A v \in occ : u <= v
        ELSE localSec - ZoneOffsetSec(machineTimeZone, localSec - maxOff)

\* new Date(trimmed) of a date written yyyy/mm/dd, a form neither regular
\* expression matches: the engine's legacy parser takes month 1..12 and day
\* 1..31, lets the day roll over, and reads 00:00:00.000 of that date on the
\* machine's local clock
ParseFallback(p, machineTimeZone) ==
  IF p.month < 1 \/ p.month > 12 \/ p.day < 1 \/ p.day > 31
    THEN Fail("Invalid date format")
    ELSE Ok(ToISOString(Inst(LocalToUtc(DateUTC(p.year, p.month, p.day, 0, 0, 0),
                                        machineTimeZone), 0)))

\* the local calendar fields with the day of the month advanced
PlusDays(p, days) == DateUTC(p.year, p.month, p.day + days, p.hour, p.minute, p.second)

\* deadline.setDate(deadline.getDate() + days), on the machine's local calendar
SetDatePlus(now, days, machineTimeZone) ==
  Inst(LocalToUtc(PlusDays(LocalParts(now, machineTimeZone), days),
                  machineTimeZone),
       now.ms)

\* ctx: the process default zone, the cached account zone, the machine's zone
\* and the instant of evaluation
Ctx(env, cached, machine, now) ==
  [env |-> env, cached |-> cached, machine |-> machine, now |-> now]

\* a variant that drops the offset of the string and reads its fields as a
\* local time of the resolved zone
parseDeadlineIgnoringOffset(deadlineInput, timeZone, ctx) ==
  IF deadlineInput.type = "string" /\ deadlineInput.form \in {"offset", "local", "date"} THEN
    LET zone == resolveTimeZone(timeZone, ctx.env, ctx.cached, ctx.machine)
    IN  IF assertValidLocalDateTime(deadlineInput) # ""
          THEN Fail(assertValidLocalDateTime(deadlineInput))
        ELSE IF ~assertValidTimeZone(zone) THEN Fail("Invalid timeZone")
        ELSE Ok(ToISOString(zonedTimeToUtc(
               deadlineInput.year, deadlineInput.month, deadlineInput.day,
               deadlineInput.hour, deadlineInput.minute, deadlineInput.second,
               deadlineInput.ms, zone)))
  ELSE Fail("Invalid date format")

parseDeadline(deadlineInput, timeZone, ctx) ==
  IF deadlineInput.type = "number" THEN
    IF deadlineInput.days <= 0
      THEN Ok(ToISOString(ctx.now))
      ELSE Ok(ToISOString(SetDatePlus(ctx.now, deadlineInput.days, ctx.machine)))
  ELSE IF deadlineInput.type = "string" THEN
    IF deadlineInput.form = "offset" THEN ParseWithOffset(deadlineInput)
    ELSE IF deadlineInput.form \in {"local", "date"} THEN
      LET invalid == assertValidLocalDateTime(deadlineInput)
          zone    == resolveTimeZone(timeZone, ctx.env, ctx.cached, ctx.machine)
      IN  IF invalid # "" THEN Fail(invalid)
          ELSE IF ~assertValidTimeZone(zone) THEN Fail("Invalid timeZone")
          ELSE Ok(ToISOString(zonedTimeToUtc(
                 deadlineInput.year, deadlineInput.month, deadlineInput.day,
                 deadlineInput.hour, deadlineInput.minute, deadlineInput.second,
                 deadlineInput.ms, zone)))
    ELSE IF deadlineInput.form = "slash" THEN ParseFallback(deadlineInput, ctx.machine)
    ELSE Fail("Invalid date format")
  ELSE Ok(ToISOString(SetDatePlus(ctx.now, 1, ctx.machine)))

(***************************************************************************)
(* reclaim-client.ts: enumerated fields.                                   *)
(***************************************************************************)
\* an optional number or boolean: <<>> is undefined, <<v>> is the value v
None == <<>>
Some(v) == <<v>>
Min(a, b) == IF a < b THEN a ELSE b
Max(a, b) == IF a > b THEN a ELSE b

\* value.trim().toUpperCase().replace(/[\s-]+/g, "_") on the spellings of the model
UpperSnake(value) ==
  CASE value \in {"work", " Work "} -> "WORK"
    [] value \in {"personal", " Personal "} -> "PERSONAL"
    [] value = "p1" -> "P1"
    [] value = "p2" -> "P2"
    [] value = "p4" -> "P4"
    [] value = "default" -> "DEFAULT"
    [] value = "prioritize" -> "PRIORITIZE"
    [] value = "urgent" -> "URGENT"
    [] value = "meeting" -> "MEETING"
    [] value \in {"one on one", "one-on-one"} -> "ONE_ON_ONE"
    [] value = "focus time" -> "FOCUS_TIME"
    [] value = "errands" -> "ERRANDS"
    [] value = "health" -> "HEALTH"
    [] value = "Vacation" -> "VACATION"
    [] value = "other personal" -> "OTHER_PERSONAL"
    [] value = "deep work" -> "DEEP_WORK"
    [] OTHER -> value

normalizeEnumValue(value) == IF ~Truthy(value) THEN Undefined ELSE UpperSnake(value)

\* value ?? fallback
Coalesce(value, fallback) == IF value # Undefined THEN value ELSE fallback

EVENT_CATEGORIES == {"WORK", "PERSONAL"}
EVENT_SUBTYPES ==
  {"ONE_ON_ONE", "STAFF_MEETING", "OP_REVIEW", "EXTERNAL", "IDEATION", "FOCUS",
   "PRODUCTIVITY", "TRAVEL", "FLIGHT", "TRAIN", "RECLAIM", "VACATION", "HEALTH",
   "ERRAND", "OTHER_PERSONAL", "UNKNOWN"}
PERSONAL_SUBTYPES == {"OTHER_PERSONAL", "ERRAND", "HEALTH", "VACATION"}
PRIORITIES == {"P1", "P2", "P3", "P4"}

\* EVENT_SUBTYPE_ALIASES[normalized], Undefined when there is none
EVENT_SUBTYPE_ALIASES(normalized) ==
  CASE normalized = "MEETING" -> "STAFF_MEETING"
    [] normalized \in {"1ON1", "ONEONONE", "ONE-ON-ONE", "ONE_ON_ONE"} -> "ONE_ON_ONE"
    [] normalized = "PERSONAL" -> "OTHER_PERSONAL"
    [] normalized = "ERRANDS" -> "ERRAND"
    [] normalized = "FOCUS_TIME" -> "FOCUS"
    [] OTHER -> Undefined

normalizeEventCategory(value, fallback) ==
  LET normalized == normalizeEnumValue(Coalesce(value, fallback))
  IN  IF normalized \in EVENT_CATEGORIES THEN normalized ELSE "WORK"

inferCategoryFromSubType(subType) ==
  IF normalizeEnumValue(subType) \in PERSONAL_SUBTYPES THEN "PERSONAL" ELSE Undefined

\* a variant in which the account default wins over the explicit value
normalizePriorityDefaultFirst(value, fallback) ==
  LET normalized == normalizeEnumValue(Coalesce(fallback, value))
  IN  IF normalized \in PRIORITIES THEN normalized
      ELSE IF normalized = "PRIORITIZE" THEN "P1"
      ELSE "P3"

normalizePriority(value, fallback) ==
  LET normalized == normalizeEnumValue(Coalesce(value, fallback))
      fallbackNormalized == normalizeEnumValue(fallback)
  IN  IF normalized \in PRIORITIES THEN normalized
      ELSE IF normalized = "DEFAULT" /\ fallbackNormalized \in PRIORITIES
        THEN fallbackNormalized
      ELSE IF normalized = "PRIORITIZE" THEN "P1"
      ELSE "P3"

normalizeEventSubType(value, eventCategory) ==
  LET normalized == normalizeEnumValue(value)
      alias == EVENT_SUBTYPE_ALIASES(normalized)
  IN  IF normalized \in EVENT_SUBTYPES THEN normalized
      ELSE IF normalized # Undefined /\ alias \in EVENT_SUBTYPES THEN alias
      ELSE IF eventCategory = "PERSONAL" THEN "OTHER_PERSONAL"
      ELSE "FOCUS"

(***************************************************************************)
(* Task data.                                                              *)
(***************************************************************************)
\* TaskInputData with the tool's extra inputs; every field is optional
EmptyTask ==
  [title |-> Undefined, notes |-> Undefined, eventCategory |-> Undefined,
   eventSubType |-> Undefined, priority |-> Undefined, timeSchemeId |-> Undefined,
   status |-> Undefined, eventColor |-> Undefined,
   onDeck |-> None, alwaysPrivate |-> None,
   timeChunksRequired |-> None, minChunkSize |-> None, maxChunkSize |-> None,
   deadline |-> NoInput, due |-> NoInput, snoozeUntil |-> NoInput,
   durationMinutes |-> None, minDurationMinutes |-> None,
   maxDurationMinutes |-> None, lockChunkSizeToDuration |-> None,
   startTime |-> NoInput]

\* the task defaults of the account (settings.taskSettings.defaults)
EmptyDefaults ==
  [timeChunksRequired |-> None, minChunkSize |-> None, maxChunkSize |-> None,
   dueInDays |-> None, category |-> Undefined, priority |-> Undefined,
   alwaysPrivate |-> None, onDeck |-> None, timeSchemeId |-> Undefined]

\* typeof v === "number" && v > 0
Positive(opt) == opt # None /\ opt[1] > 0

(***************************************************************************)
(* tools/taskCrud.ts: minutes to chunks.                                   *)
(***************************************************************************)
CHUNK_MINUTES == 15

\* a variant that truncates instead of failing
minutesToChunksTruncating(value) == Ok(value \div CHUNK_MINUTES)

minutesToChunks(value) ==
  IF value % CHUNK_MINUTES # 0
    THEN Fail("must be a multiple of 15 minutes")
    ELSE Ok(value \div CHUNK_MINUTES)

\* the field after an optional minutes input has been converted into it
ConvertInto(field, minutes) ==
  IF minutes = None THEN field ELSE Some(minutesToChunks(minutes[1]).value)

\* the first conversion that throws, in the order of the code
ConversionError(input) ==
  LET bad(m) == m # None /\ ~minutesToChunks(m[1]).ok
  IN  \/ bad(input.durationMinutes)
      \/ bad(input.minDurationMinutes)
      \/ bad(input.maxDurationMinutes)

StripToolFields(data) ==
  [data EXCEPT !.durationMinutes = None, !.minDurationMinutes = None,
               !.maxDurationMinutes = None, !.lockChunkSizeToDuration = None,
               !.startTime = NoInput]

\* a variant that forgets the lock flag
normalizeChunkInputsNoLock(input) ==
  IF ConversionError(input) THEN Fail("must be a multiple of 15 minutes")
  ELSE Ok(StripToolFields(
         [input EXCEPT
            !.timeChunksRequired = ConvertInto(@, input.durationMinutes),
            !.minChunkSize = ConvertInto(@, input.minDurationMinutes),
            !.maxChunkSize = ConvertInto(@, input.maxDurationMinutes)]))

normalizeChunkInputs(input) ==
  IF ConversionError(input) THEN Fail("must be a multiple of 15 minutes")
  ELSE
    LET total == ConvertInto(input.timeChunksRequired, input.durationMinutes)
        lock  == input.lockChunkSizeToDuration = Some(TRUE)
    IN  IF lock /\ total = None
          THEN Fail("lockChunkSizeToDuration requires timeChunksRequired or durationMinutes")
          ELSE Ok(StripToolFields(
                 [input EXCEPT
                    !.timeChunksRequired = total,
                    !.minChunkSize =
                       IF lock THEN total ELSE ConvertInto(@, input.minDurationMinutes),
                    !.maxChunkSize =
                       IF lock THEN total ELSE ConvertInto(@, input.maxDurationMinutes)]))

(***************************************************************************)
(* reclaim-client.ts: defaults and chunk bounds.                           *)
(***************************************************************************)
\* whether validateChunkSizes returns
validateChunkSizes(payload) ==
  ~(payload.minChunkSize # None /\ payload.maxChunkSize # None
      /\ payload.minChunkSize[1] > payload.maxChunkSize[1])

\* a variant without the clamp to the total
RepairOnly(total, minIn, maxIn) ==
  [min |-> minIn,
   max |-> IF minIn # None /\ maxIn # None /\ minIn[1] > maxIn[1] THEN minIn ELSE maxIn]

\* the clamp of both bounds to the total, then the repair of min > max
ClampAndRepair(total, minIn, maxIn) ==
  LET min1 == IF total # None /\ minIn # None THEN Some(Min(minIn[1], total[1])) ELSE minIn
      max1 == IF total # None /\ maxIn # None THEN Some(Min(maxIn[1], total[1])) ELSE maxIn
      max2 == IF min1 # None /\ max1 # None /\ min1[1] > max1[1] THEN min1 ELSE max1
  IN  [min |-> min1, max |-> max2]

\* a variant that derives the total from the minimum alone
derivedFromMinimum(minChunkSize, maxChunkSize) ==
  IF minChunkSize = None THEN 0 ELSE minChunkSize[1]

\* Math.max(output.minChunkSize ?? 0, output.maxChunkSize ?? 0)
derived(minChunkSize, maxChunkSize) ==
  Max(IF minChunkSize = None THEN 0 ELSE minChunkSize[1],
      IF maxChunkSize = None THEN 0 ELSE maxChunkSize[1])

applyTaskDefaultsForCreate(taskData, defaults) ==
  LET inferredCategory ==
        IF taskData.eventCategory = Undefined
          THEN inferCategoryFromSubType(taskData.eventSubType) ELSE Undefined
      normalizedCategory ==
        normalizeEventCategory(taskData.eventCategory,
                               Coalesce(inferredCategory, defaults.category))
      total1 == IF taskData.timeChunksRequired = None /\ Positive(defaults.timeChunksRequired)
                  THEN defaults.timeChunksRequired ELSE taskData.timeChunksRequired
      derivedTotal == derived(taskData.minChunkSize, taskData.maxChunkSize)
      total2 == IF total1 = None /\ derivedTotal > 0 THEN Some(derivedTotal) ELSE total1
      total  == IF total2 = None THEN Some(1) ELSE total2
      min1 == IF taskData.minChunkSize = None /\ Positive(defaults.minChunkSize)
                THEN defaults.minChunkSize ELSE taskData.minChunkSize
      max1 == IF taskData.maxChunkSize = None /\ Positive(defaults.maxChunkSize)
                THEN defaults.maxChunkSize ELSE taskData.maxChunkSize
      min2 == IF min1 = None THEN Some(Min(total[1], 1)) ELSE min1
      max2 == IF max1 = None THEN total ELSE max1
      bounds == ClampAndRepair(total, min2, max2)
  IN  [taskData EXCEPT
         !.eventCategory = normalizedCategory,
         !.eventSubType = normalizeEventSubType(taskData.eventSubType, normalizedCategory),
         !.priority = normalizePriority(taskData.priority, defaults.priority),
         !.onDeck = IF @ = None THEN defaults.onDeck ELSE @,
         !.alwaysPrivate = IF @ = None THEN defaults.alwaysPrivate ELSE @,
         !.notes = IF Truthy(@) THEN @ ELSE "",
         !.timeSchemeId = IF @ = Undefined /\ Truthy(defaults.timeSchemeId)
                                           /\ Trim(defaults.timeSchemeId) # ""
                            THEN defaults.timeSchemeId ELSE @,
         !.timeChunksRequired = total,
         !.minChunkSize = bounds.min,
         !.maxChunkSize = bounds.max]

\* a variant that fills a patch from the account defaults as a create does
normalizeTaskPatchWithDefaults(taskData, defaults) ==
  applyTaskDefaultsForCreate(taskData, defaults)

normalizeTaskPatch(taskData, defaults) ==
  LET category1 == IF Truthy(taskData.eventCategory)
                     THEN normalizeEventCategory(taskData.eventCategory, defaults.category)
                     ELSE taskData.eventCategory
      subCategory ==
        IF Truthy(category1)
          THEN normalizeEventCategory(category1, Undefined)
          ELSE normalizeEventCategory(Undefined,
                 Coalesce(inferCategoryFromSubType(taskData.eventSubType),
                          defaults.category))
      bounds == ClampAndRepair(taskData.timeChunksRequired, taskData.minChunkSize,
                               taskData.maxChunkSize)
  IN  [taskData EXCEPT
         !.eventCategory = category1,
         !.eventSubType = IF Truthy(@) THEN normalizeEventSubType(@, subCategory) ELSE @,
         !.priority = IF Truthy(@) THEN normalizePriority(@, defaults.priority) ELSE @,
         !.timeSchemeId = IF @ = "" THEN Undefined ELSE @,
         !.minChunkSize = bounds.min,
         !.maxChunkSize = bounds.max]

(***************************************************************************)
(* reclaim-client.ts: the request each operation builds.                   *)
(***************************************************************************)
\* timeZone ?? process.env.MCP_DEFAULT_TIMEZONE ?? (the fetched account zone)
NeedsAccountTimeZone(timeZone, envTimeZone) ==
  timeZone = Undefined /\ envTimeZone = Undefined

ResolvedTimeZone(timeZone, envTimeZone, accountTimeZone) ==
  Coalesce(timeZone, Coalesce(envTimeZone, accountTimeZone))

\* delete apiPayload.deadline, and the removal of the keys that are undefined:
\* whatever the deadline was, the body holds none
WithoutDeadline(deadline) == NoInput

\* the request body: the task fields, with due and snoozeUntil as optional
\* ISO strings and with the deadline deleted
Payload(data, due, snoozeUntil) ==
  [title |-> data.title, notes |-> data.notes, eventCategory |-> data.eventCategory,
   eventSubType |-> data.eventSubType, priority |-> data.priority,
   timeSchemeId |-> data.timeSchemeId, status |-> data.status,
   eventColor |-> data.eventColor, onDeck |-> data.onDeck,
   alwaysPrivate |-> data.alwaysPrivate,
   timeChunksRequired |-> data.timeChunksRequired,
   minChunkSize |-> data.minChunkSize, maxChunkSize |-> data.maxChunkSize,
   due |-> due, snoozeUntil |-> snoozeUntil,
   deadline |-> WithoutDeadline(data.deadline)]

\* Object.keys(apiPayload).length === 0 once the undefined keys are deleted
PayloadIsEmpty(p) ==
  /\ \A f \in {"title", "notes", "eventCategory", "eventSubType", "priority",
               "timeSchemeId", "status", "eventColor"} : p[f] = Undefined
  /\ \A f \in {"onDeck", "alwaysPrivate", "timeChunksRequired", "minChunkSize",
               "maxChunkSize", "due", "snoozeUntil"} : p[f] = None
  /\ p.deadline = NoInput

\* what an operation does in the end: a request to the task service, or an error
\* query: the optional instant sent beside the body (startTime, end)
Sent(method, payload, query) ==
  [kind |-> "request", method |-> method, payload |-> payload,
   query |-> query, error |-> "", wrapped |-> FALSE]

Thrown(message, wrapped) ==
  [kind |-> "error", method |-> "", payload |-> Payload(EmptyTask, None, None),
   query |-> None, error |-> message, wrapped |-> wrapped]

\* handleApiError: every error caught in the operation is rethrown as a
\* ReclaimError "API Call Failed (context): message"
handleApiError(message) == Thrown(message, TRUE)

\* an optional ISO string out of a parse result
Optional(r) == IF r.ok THEN [ok |-> TRUE, value |-> Some(r.value)] ELSE r

\* the parse of an optional date/time field: its error, or its optional ISO string
ParseField(input, timeZone, ctx) ==
  IF input.type = "undefined" THEN [ok |-> TRUE, value |-> None]
  ELSE Optional(parseDeadline(input, timeZone, ctx))

\* a variant in which a due that is given outlives the deadline
CombineDatesDueFirst(data, due, deadline, snooze, dueOr) ==
  IF ~due.ok THEN due
  ELSE IF ~deadline.ok THEN deadline
  ELSE IF ~snooze.ok THEN snooze
  ELSE Ok(Payload(data,
                  IF due.value # None THEN due.value
                  ELSE IF deadline.value # None THEN deadline.value
                  ELSE dueOr,
                  snooze.value))

\* the parses in the order of the code: due, deadline, snoozeUntil; a deadline
\* replaces the due, and dueOr is the due when neither is given
CombineDates(data, due, deadline, snooze, dueOr) ==
  IF ~due.ok THEN due
  ELSE IF ~deadline.ok THEN deadline
  ELSE IF ~snooze.ok THEN snooze
  ELSE Ok(Payload(data,
                  IF deadline.value # None THEN deadline.value
                  ELSE IF due.value # None THEN due.value
                  ELSE dueOr,
                  snooze.value))

\* the due, deadline and snoozeUntil handling the three operations share
ResolveDates(data, timeZone, ctx, dueOr) ==
  CombineDates(data, ParseField(data.due, timeZone, ctx),
               ParseField(data.deadline, timeZone, ctx),
               ParseField(data.snoozeUntil, timeZone, ctx), dueOr)

ChunkSizeConflict == "minChunkSize cannot be greater than maxChunkSize"

\* validateChunkSizes, then the request
Finish(resolved, method, query) ==
  IF ~resolved.ok THEN handleApiError(resolved.error)
  ELSE IF ~validateChunkSizes(resolved.value) THEN handleApiError(ChunkSizeConflict)
  ELSE Sent(method, resolved.value, query)

createTask(taskData, resolvedTimeZone, defaults, ctx) ==
  Finish(ResolveDates(applyTaskDefaultsForCreate(taskData, defaults),
                      resolvedTimeZone, ctx,
                      Some(parseDeadline(IF Positive(defaults.dueInDays)
                                           THEN NumDays(defaults.dueInDays[1])
                                           ELSE NoInput,
                                         resolvedTimeZone, ctx).value)),
         "POST /tasks", None)

addMinutes(base, minutes) == Inst(base.s + minutes * 60, base.ms)
addDays(base, days) == addMinutes(base, days * 1440)

deriveDefaultDue(base, defaults) ==
  IF Positive(defaults.dueInDays) THEN addDays(base, defaults.dueInDays[1])
  ELSE addDays(base, 1)

\* new Date(iso)
FromISOString(iso) ==
  Inst(DateUTC(iso.year, iso.month, iso.day, iso.hour, iso.minute, iso.second), iso.ms)

\* a variant that takes the default due whatever the chunks are
DueFromDefaults(startTimeDate, normalizedInput, defaults) ==
  deriveDefaultDue(startTimeDate, defaults)

\* the due of a task at a time when neither a deadline nor a due is given
DueFromStart(startTimeDate, normalizedInput, defaults) ==
  IF Positive(normalizedInput.timeChunksRequired)
    THEN addMinutes(startTimeDate, normalizedInput.timeChunksRequired[1] * 15)
    ELSE deriveDefaultDue(startTimeDate, defaults)

AtTime(startTimeIso, normalizedInput, resolvedTimeZone, defaults, ctx) ==
  IF ~startTimeIso.ok THEN handleApiError(startTimeIso.error)
  ELSE Finish(ResolveDates(normalizedInput, resolvedTimeZone, ctx,
                Some(ToISOString(DueFromStart(FromISOString(startTimeIso.value),
                                              normalizedInput, defaults)))),
              "POST /tasks/at-time", Some(startTimeIso.value))

createTaskAtTime(startTime, taskData, resolvedTimeZone, defaults, ctx) ==
  AtTime(parseDeadline(startTime, resolvedTimeZone, ctx),
         applyTaskDefaultsForCreate(taskData, defaults), resolvedTimeZone,
         defaults, ctx)

\* a variant that patches whatever the payload holds
PatchAlways(resolved) == Finish(resolved, "PATCH /tasks/id", None)

\* an empty payload is never sent as a PATCH: the task is read instead
PatchOrRead(resolved) ==
  IF resolved.ok /\ validateChunkSizes(resolved.value) /\ PayloadIsEmpty(resolved.value)
    THEN Sent("GET /tasks/id", resolved.value, None)
    ELSE Finish(resolved, "PATCH /tasks/id", None)

updateTask(taskData, resolvedTimeZone, defaults, ctx) ==
  PatchOrRead(ResolveDates(normalizeTaskPatch(taskData, defaults),
                           resolvedTimeZone, ctx, None))

\* the end instant is sent as a query parameter; a bad end is rethrown as a
\* plain Error and never reaches handleApiError
LogWork(parsedEnd) ==
  IF ~parsedEnd.ok THEN Thrown(parsedEnd.error, FALSE)
  ELSE Sent("POST /planner/log-work/task/id", Payload(EmptyTask, None, None),
            Some(parsedEnd.value))

\* if (end): an end that is undefined or the empty string is left out
logWorkForTask(minutes, end, resolvedTimeZone, ctx) ==
  IF minutes <= 0 THEN Thrown("Minutes must be positive to log work.", FALSE)
  ELSE IF end.type = "undefined" \/ (end.type = "string" /\ end.form = "empty")
    THEN Sent("POST /planner/log-work/task/id", Payload(EmptyTask, None, None), None)
  ELSE LogWork(parseDeadline(end, resolvedTimeZone, ctx))

\* getTaskDefaults once its lookup has returned: the task defaults of the
\* account ({} when it has none) and the category, sub-type and priority
\* derived from them
DerivedDefaults(category, priority) ==
  [eventCategory |-> category,
   eventSubType |-> normalizeEventSubType(Undefined, category),
   priority |-> priority]

getTaskDefaults(defaults) ==
  [kind |-> "value", method |-> "", payload |-> Payload(EmptyTask, None, None),
   query |-> None, error |-> "", wrapped |-> FALSE,
   value |-> [chunkMinutes |-> 15, defaults |-> defaults,
              derivedDefaults |->
                DerivedDefaults(normalizeEventCategory(Undefined, defaults.category),
                                normalizePriority(Undefined, defaults.priority))]]

(***************************************************************************)
(* tools/taskCrud.ts: the create and update tool handlers up to their call *)
(* of the client.                                                          *)
(***************************************************************************)
\* the account of the user at the service: its zone and its task defaults
Account(timeZone, defaults) == [timeZone |-> timeZone, defaults |-> defaults]

\* the client function a handler calls, with its startTime and its task data
ClientCall(op, input, data) == Ok([op |-> op, input |-> input, data |-> data])

\* typeof startTime === "string" && startTime.length > 0
HasStartTime(startTime) == startTime.type = "string" /\ startTime.form # "empty"

\* the error normalizeChunkInputs throws, or the client function called
reclaim_create_task(params) ==
  LET normalized == normalizeChunkInputs(params)
  IN  IF ~normalized.ok THEN normalized
      ELSE IF HasStartTime(params.startTime)
        THEN ClientCall("createTaskAtTime", params.startTime, normalized.value)
        ELSE ClientCall("createTask", NoInput, normalized.value)

\* the error normalizeChunkInputs throws, the error of an update that names
\* no field, or the client function called
reclaim_update_task(params) ==
  LET normalized == normalizeChunkInputs(params)
  IN  IF ~normalized.ok THEN normalized
      ELSE IF normalized.value = EmptyTask
        THEN Fail("Update requires at least one field to change besides taskId")
      ELSE ClientCall("updateTask", NoInput, normalized.value)

(***************************************************************************)
(* State.                                                                  *)
(***************************************************************************)
VARIABLES
  cachedCurrentUser,         \* None, or Some(the user record GET /users/current gave)
  cachedCurrentUserPromise,  \* 0 for undefined, else the index of a promise
  cachedAccountTimeZone,     \* Undefined, or the trimmed zone of the user record
  cachedTaskDefaults,        \* None, or Some(the task defaults of the user record)
  envTimeZone,               \* process.env.MCP_DEFAULT_TIMEZONE
  promises,                  \* every promise fetchCurrentUser created, in order
  inflight,                  \* the promises whose GET /users/current is unanswered
  calls,                     \* every async call started: bootstrap, then operations
  microtasks,                \* the microtask queue: calls whose await has settled
  tm,   \* SpecTime: one parseDeadline call, its arguments and its result
  nm,   \* SpecNorm: one create/update call, its arguments, the account of the
        \* user at the service, and its outcome
  lm,   \* SpecList: one listing of the tasks, the answer of the service and the result
  sv    \* SpecServer: the process from main() on, and its HTTP sessions

loopVars ==
  <<cachedCurrentUser, cachedCurrentUserPromise, cachedAccountTimeZone,
    cachedTaskDefaults, envTimeZone, promises, inflight, calls, microtasks>>

vars == <<loopVars, tm, nm, lm, sv, hourCycle>>

\* the module as loaded: nothing cached, nothing started
ModuleLoaded ==
  /\ cachedCurrentUser = None
  /\ cachedCurrentUserPromise = 0
  /\ cachedAccountTimeZone = Undefined
  /\ cachedTaskDefaults = None
  /\ promises = <<>>
  /\ inflight = {}
  /\ calls = <<>>
  /\ microtasks = <<>>

NoResult == [ok |-> FALSE, error |-> "<pending>"]
\* 2026-01-05T12:00:00.000Z
FixedNow == Inst(1767614400, 0)

\* the process before main() has run, with nothing in its environment
ServerIdle ==
  [phase |-> "idle",
   env |-> [MCP_TRANSPORT |-> Undefined, MCP_HTTP_PORT |-> Undefined,
            MCP_HTTP_STATELESS |-> Undefined, RECLAIM_API_KEY |-> Undefined],
   transports |-> {}, connecting |-> 0, issued |-> 0, served |-> 0,
   request |-> [method |-> "", sessionId |-> Undefined, initialize |-> FALSE],
   response |-> [status |-> 0, message |-> "", handled |-> "none"]]

\* the single-call records while their specification is not the one running
ListIdle ==
  [phase |-> "idle", entry |-> "", filter |-> "", answer |-> "",
   data |-> [array |-> FALSE, items |-> <<>>],
   result |-> [isError |-> FALSE, tasks |-> <<>>]]
TimeIdle ==
  [phase |-> "idle", input |-> NoInput, timeZone |-> Undefined,
   ctx |-> Ctx(Undefined, Undefined, "UTC", FixedNow), result |-> NoResult]
NormIdle ==
  [phase |-> "idle", tool |-> "", params |-> EmptyTask, timeZone |-> Undefined,
   account |-> Account(Undefined, EmptyDefaults),
   ctx |-> Ctx(Undefined, Undefined, "UTC", FixedNow),
   normalized |-> NoResult, outcome |-> Thrown("<pending>", FALSE)]

(***************************************************************************)
(* Spec: the process on the JavaScript event loop.  The answer to          *)
(* GET /users/current is a macrotask and runs only when the microtask      *)
(* queue is empty; a settled await resumes its call from the head of the   *)
(* microtask queue, first in first out; an operation is called at any      *)
(* point between two of these steps, except between the reactions that one *)
(* settlement has queued, and runs up to its first await.                  *)
(***************************************************************************)
\* operations started after the bootstrap
MaxCalls == 2

Operations == {"createTask", "createTaskAtTime", "updateTask", "logWorkForTask"}

\* the task data the operations of Spec and SpecOps are called with: a title
\* and, for createTask and updateTask, the local date/time as the deadline
TaskFor(op, input) ==
  CASE op = "createTask" -> [EmptyTask EXCEPT !.title = "T", !.deadline = input]
    [] op = "createTaskAtTime" -> [EmptyTask EXCEPT !.title = "T"]
    [] op = "updateTask" -> [EmptyTask EXCEPT !.deadline = input]
    [] OTHER -> EmptyTask

\* every source of the zone has a value of its own
ArgTimeZone == "America/New_York"
EnvTimeZone == "UTC"
AccountTimeZone == "America/Los_Angeles"
MachineTimeZone == "Europe/Berlin"

AccountDefaults ==
  [EmptyDefaults EXCEPT !.timeChunksRequired = Some(2), !.priority = "P2"]

\* the body of a good answer to GET /users/current
ServerUser == [timezone |-> AccountTimeZone, defaults |-> Some(AccountDefaults)]

\* the answers: the user record, a body that is no object, a failed request
Answers == {"user", "nonobject", "error"}

CallTimeZones == {Undefined, " ", ArgTimeZone}
CallInput == StrLocal(2026, 1, 5, 8, 0, 0, 0)
\* a local date/time of a day that does not exist
InvalidInput == StrLocal(2026, 2, 30, 9, 0, 0, 0)
\* a zone name that is no time zone
InvalidTimeZone == "Mars/Phobos"
\* an operation: its timeZone argument and its deadline / startTime / end
CallArgs == {<<z, CallInput>> : z \in CallTimeZones}
\* the same with the arguments that make the operation fail
FailingArgs ==
  {<<z, InvalidInput>> : z \in {Undefined, ArgTimeZone}}
    \cup {<<InvalidTimeZone, CallInput>>, <<ArgTimeZone, StrEmpty>>}

Pending == [state |-> "pending", value |-> None, waiters |-> <<>>]

\* input is the startTime of createTaskAtTime and the end of logWorkForTask,
\* data the task data of createTask, createTaskAtTime and updateTask
NewCall(op, timeZone, input, data) ==
  [op |-> op, timeZone |-> timeZone, input |-> input, data |-> data, pc |-> "start",
   stage |-> "", awaiting |-> 0, issued |-> 0, rejected |-> {},
   carry |-> [ok |-> TRUE, user |-> None], failed |-> FALSE,
   resolvedTimeZone |-> Coalesce(timeZone, envTimeZone), accountTimeZone |-> Undefined,
   defaults |-> EmptyDefaults, firstPopulated |-> Undefined,
   ctx |-> Ctx(Undefined, Undefined, MachineTimeZone, FixedNow),
   outcome |-> Thrown("<pending>", FALSE)]

\* a history value for the properties, no part of the program: the first
\* source that holds a zone, in the order argument, process default, account
\* zone of the user record the process has fetched, machine
FirstPopulated(timeZone) ==
  IF Truthy(timeZone) /\ Trim(timeZone) # "" THEN Trim(timeZone)
  ELSE IF Truthy(envTimeZone) THEN envTimeZone
  ELSE IF cachedCurrentUser # None /\ Truthy(Trim(cachedCurrentUser[1].timezone))
    THEN Trim(cachedCurrentUser[1].timezone)
  ELSE MachineTimeZone

\* the error of a failed GET /users/current
LookupError == "Request failed"

\* what an operation does with its input once it has its zone and defaults
Outcome(op, input, data, resolvedTimeZone, defaults, ctx) ==
  CASE op = "createTask" -> createTask(data, resolvedTimeZone, defaults, ctx)
    [] op = "createTaskAtTime" ->
         createTaskAtTime(input, data, resolvedTimeZone, defaults, ctx)
    [] op = "updateTask" -> updateTask(data, resolvedTimeZone, defaults, ctx)
    [] op = "getTaskDefaults" -> getTaskDefaults(defaults)
    [] OTHER -> logWorkForTask(30, input, resolvedTimeZone, ctx)

\* the rest of an operation once its lookups are over, in the context ctx:
\* the request it sends, or the value it returns; an await that throws ends
\* createTask, createTaskAtTime and updateTask in their catch block, and
\* logWorkForTask and getTaskDefaults at once
CompleteIn(r, ctx) ==
  [r EXCEPT !.pc = "done",
            !.outcome =
               IF r.failed
                 THEN IF r.op \in {"logWorkForTask", "getTaskDefaults"}
                        THEN Thrown(LookupError, FALSE)
                        ELSE handleApiError(LookupError)
                 ELSE Outcome(r.op, r.input, r.data, r.resolvedTimeZone, r.defaults, ctx),
            !.ctx = ctx,
            !.firstPopulated = FirstPopulated(r.timeZone)]

Complete(r) ==
  CompleteIn(r, Ctx(envTimeZone, cachedAccountTimeZone, MachineTimeZone, FixedNow))

\* a variant without the .catch(() => undefined) of the operations
ReturnPcNoCatch(op) == "caller_resume"

\* where a lookup returns to: the bootstrap awaits it inside try/catch and
\* getTaskDefaults as it is, the operations through .catch(() => undefined)
ReturnPc(op) ==
  IF op \in {"bootstrap", "getTaskDefaults"} THEN "caller_resume" ELSE "catch_hop"

\* if (cachedCurrentUser), if (!cachedCurrentUser)
HasUser(u) == u # None

\* if (!cachedCurrentUserPromise) is skipped
HasPromise(p) == p # 0

\* fetchAccountTimeZone / fetchTaskDefaults of call c up to the first await,
\* fetchCurrentUser included; base is calls with what c did before, queue
\* the microtasks left
BeginFetch(c, stage, base, queue) ==
  LET hit == IF stage = "tz" THEN Truthy(cachedAccountTimeZone)
             ELSE cachedTaskDefaults # None
      b == [base EXCEPT ![c].stage = stage]
      p == IF HasPromise(cachedCurrentUserPromise)
             THEN cachedCurrentUserPromise ELSE Len(promises) + 1
  IN  IF hit THEN
        /\ calls' = [b EXCEPT ![c].pc = ReturnPc(b[c].op),
                              ![c].accountTimeZone =
                                 IF stage = "tz" THEN cachedAccountTimeZone ELSE @,
                              ![c].defaults =
                                 IF stage = "tz" THEN @ ELSE cachedTaskDefaults[1]]
        /\ microtasks' = Append(queue, c)
        /\ UNCHANGED <<cachedCurrentUserPromise, promises, inflight>>
      ELSE IF HasUser(cachedCurrentUser) THEN
        /\ calls' = [b EXCEPT ![c].pc = "fx_resume",
                              ![c].carry = [ok |-> TRUE, user |-> cachedCurrentUser]]
        /\ microtasks' = Append(queue, c)
        /\ UNCHANGED <<cachedCurrentUserPromise, promises, inflight>>
      ELSE IF ~HasPromise(cachedCurrentUserPromise) THEN
        /\ promises' = Append(promises, [Pending EXCEPT !.waiters = <<c>>])
        /\ inflight' = inflight \cup {p}
        /\ cachedCurrentUserPromise' = p
        /\ calls' = [b EXCEPT ![c].pc = "fcu_wait", ![c].awaiting = p,
                              ![c].issued = @ + 1]
        /\ microtasks' = queue
      ELSE IF promises[p].state = "pending" THEN
        /\ promises' = [promises EXCEPT ![p].waiters = Append(@, c)]
        /\ calls' = [b EXCEPT ![c].pc = "fcu_wait", ![c].awaiting = p]
        /\ microtasks' = queue
        /\ UNCHANGED <<cachedCurrentUserPromise, inflight>>
      ELSE
        /\ calls' = [b EXCEPT ![c].pc = "fcu_resume", ![c].awaiting = p]
        /\ microtasks' = Append(queue, c)
        /\ UNCHANGED <<cachedCurrentUserPromise, promises, inflight>>

\* index.ts bootstrapDefaultTimeZone up to its first await
BeginBootstrap ==
  /\ IF Truthy(envTimeZone)
       THEN /\ calls' = <<[NewCall("bootstrap", Undefined, NoInput, EmptyTask)
                             EXCEPT !.pc = "done"]>>
            /\ UNCHANGED <<cachedCurrentUserPromise, promises, inflight, microtasks>>
       ELSE BeginFetch(1, "tz", <<NewCall("bootstrap", Undefined, NoInput, EmptyTask)>>,
                       microtasks)
  /\ UNCHANGED <<cachedCurrentUser, cachedAccountTimeZone, cachedTaskDefaults,
                 envTimeZone>>

\* void bootstrapDefaultTimeZone(), started once before the server connects
StartBootstrap ==
  /\ calls = <<>>
  /\ BeginBootstrap
  /\ UNCHANGED <<tm, nm, lm, sv, hourCycle>>

\* the calls promise p queued when it settled whose reactions have yet to run
ReactionsLeft(p) ==
  {i \in DOMAIN promises[p].waiters :
     /\ calls[promises[p].waiters[i]].pc = "fcu_resume"
     /\ calls[promises[p].waiters[i]].awaiting = p}

\* the points at which a function of the client can be called: in a
\* macrotask, or in a job of the caller that stands anywhere in the microtask
\* queue, also between the settlement of GET /users/current and the
\* reactions to it.  The reactions of the calls that awaited the promise when
\* it settled are queued together and run one after the other, so no job of a
\* caller stands between them: once the first has run, nothing is called
\* until the last has
BetweenJobs ==
  \A p \in DOMAIN promises :
    ReactionsLeft(p) = {} \/ ReactionsLeft(p) = DOMAIN promises[p].waiters

\* a function of the client is called and runs up to its first await:
\* getTaskDefaults asks for the task defaults at once, the others for the
\* account zone when neither the argument nor the process gives a zone, and
\* then, but for logWorkForTask, for the task defaults
BeginCall(op, timeZone, input, data) ==
  LET c == Len(calls) + 1
      base == Append(calls, NewCall(op, timeZone, input, data))
  IN  /\ BetweenJobs
      /\ IF op = "getTaskDefaults"
           THEN BeginFetch(c, "defaults", base, microtasks)
         ELSE IF NeedsAccountTimeZone(timeZone, envTimeZone)
           THEN BeginFetch(c, "tz", base, microtasks)
         ELSE IF op = "logWorkForTask"
           THEN /\ calls' = [base EXCEPT ![c] = Complete(@)]
                /\ UNCHANGED <<cachedCurrentUserPromise, promises, inflight, microtasks>>
         ELSE BeginFetch(c, "defaults", base, microtasks)
      /\ UNCHANGED <<cachedCurrentUser, cachedAccountTimeZone, cachedTaskDefaults,
                     envTimeZone>>

\* createTask, createTaskAtTime, updateTask or logWorkForTask is called
StartCall(op, timeZone, input) ==
  /\ Len(calls) >= 1
  /\ BeginCall(op, timeZone, input, TaskFor(op, input))
  /\ UNCHANGED <<tm, nm, lm, sv, hourCycle>>

\* getTaskDefaults is called, by the reclaim_get_task_defaults tool or by the
\* tasks://defaults resource
GetTaskDefaultsCall ==
  /\ Len(calls) >= 1
  /\ BeginCall("getTaskDefaults", Undefined, NoInput, EmptyTask)
  /\ UNCHANGED <<tm, nm, lm, sv, hourCycle>>

\* GET /users/current of promise p is answered, with the record found at the
\* service, with a body that is no object, or with an error: the async arrow
\* of fetchCurrentUser resumes, caches an object body, and settles the
\* promise, which queues every call awaiting it in the order they began to
\* wait; waiters keeps the calls queued here
GetResponds(p, answer, found) ==
  LET user == IF answer = "user" THEN Some(found) ELSE cachedCurrentUser
      ws == promises[p].waiters
  IN  /\ p \in inflight
      /\ microtasks = <<>>
      /\ inflight' = inflight \ {p}
      /\ cachedCurrentUser' = user
      /\ promises' = [promises EXCEPT
                        ![p].state = IF answer = "error" THEN "rejected" ELSE "fulfilled",
                        ![p].value = IF answer = "error" THEN None ELSE user]
      /\ calls' = [i \in DOMAIN calls |->
                     IF calls[i].pc = "fcu_wait" /\ calls[i].awaiting = p
                       THEN [calls[i] EXCEPT !.pc = "fcu_resume"] ELSE calls[i]]
      /\ microtasks' = ws
      /\ UNCHANGED <<cachedCurrentUserPromise, cachedAccountTimeZone,
                     cachedTaskDefaults, envTimeZone, tm, nm, lm, sv, hourCycle>>

\* the call at the head of the microtask queue, when it stands at pc
AtHead(c, pc) ==
  /\ microtasks # <<>>
  /\ c = Head(microtasks)
  /\ calls[c].pc = pc

\* the finally block of fetchCurrentUser: the handle is cleared unless a
\* user record is cached
HandleAfterLookup(user, promise) == IF ~HasUser(user) THEN 0 ELSE promise

\* fetchCurrentUser after return await cachedCurrentUserPromise: the finally
FinallyStep(c) ==
  /\ AtHead(c, "fcu_resume")
  /\ cachedCurrentUserPromise' =
       HandleAfterLookup(cachedCurrentUser, cachedCurrentUserPromise)
  /\ calls' = [calls EXCEPT
                 ![c].pc = "fx_resume",
                 ![c].carry = [ok |-> promises[calls[c].awaiting].state = "fulfilled",
                               user |-> promises[calls[c].awaiting].value]]
  /\ microtasks' = Append(Tail(microtasks), c)
  /\ UNCHANGED <<cachedCurrentUser, cachedAccountTimeZone, cachedTaskDefaults,
                 envTimeZone, promises, inflight, tm, nm, lm, sv, hourCycle>>

\* fetchAccountTimeZone / fetchTaskDefaults after await fetchCurrentUser()
FetchResume(c) ==
  LET r == calls[c]
      user == r.carry.user
      tz == IF user # None THEN Trim(user[1].timezone) ELSE Undefined
      defaults == IF user # None THEN user[1].defaults ELSE None
      zoneNow == IF r.carry.ok /\ r.stage = "tz" /\ Truthy(tz)
                   THEN tz ELSE cachedAccountTimeZone
      defaultsNow == IF r.carry.ok /\ r.stage = "defaults" /\ defaults # None
                       THEN defaults ELSE cachedTaskDefaults
  IN  /\ AtHead(c, "fx_resume")
      /\ cachedAccountTimeZone' = zoneNow
      /\ cachedTaskDefaults' = defaultsNow
      /\ calls' = [calls EXCEPT
                     ![c].pc = ReturnPc(r.op),
                     ![c].failed = ~r.carry.ok,
                     ![c].rejected = IF r.carry.ok THEN @ ELSE @ \cup {r.stage},
                     ![c].accountTimeZone =
                        IF r.carry.ok /\ r.stage = "tz" THEN zoneNow ELSE @,
                     ![c].defaults =
                        IF r.carry.ok /\ r.stage = "defaults" /\ defaultsNow # None
                          THEN defaultsNow[1] ELSE @]
      /\ microtasks' = Append(Tail(microtasks), c)
      /\ UNCHANGED <<cachedCurrentUser, cachedCurrentUserPromise, envTimeZone,
                     promises, inflight, tm, nm, lm, sv, hourCycle>>

\* .catch(() => undefined) on the lookup of an operation
CatchHop(c) ==
  /\ AtHead(c, "catch_hop")
  /\ calls' = [calls EXCEPT ![c].pc = "caller_resume", ![c].failed = FALSE]
  /\ microtasks' = Append(Tail(microtasks), c)
  /\ UNCHANGED <<cachedCurrentUser, cachedCurrentUserPromise, cachedAccountTimeZone,
                 cachedTaskDefaults, envTimeZone, promises, inflight, tm, nm, lm, sv, hourCycle>>

\* bootstrapDefaultTimeZone after await fetchAccountTimeZone()
BootstrapResume(c) ==
  /\ AtHead(c, "caller_resume")
  /\ calls[c].op = "bootstrap"
  /\ envTimeZone' = IF ~calls[c].failed /\ Truthy(calls[c].accountTimeZone)
                      THEN calls[c].accountTimeZone ELSE envTimeZone
  /\ calls' = [calls EXCEPT ![c].pc = "done"]
  /\ microtasks' = Tail(microtasks)
  /\ UNCHANGED <<cachedCurrentUser, cachedCurrentUserPromise, cachedAccountTimeZone,
                 cachedTaskDefaults, promises, inflight, tm, nm, lm, sv, hourCycle>>

\* an operation after its account zone lookup: on to the task defaults
ZoneResume(c) ==
  LET base == [calls EXCEPT ![c].resolvedTimeZone = calls[c].accountTimeZone]
  IN  /\ AtHead(c, "caller_resume")
      /\ calls[c].op # "bootstrap"
      /\ calls[c].stage = "tz"
      /\ IF calls[c].op = "logWorkForTask" \/ calls[c].failed
           THEN /\ calls' = [base EXCEPT ![c] = Complete(@)]
                /\ microtasks' = Tail(microtasks)
                /\ UNCHANGED <<cachedCurrentUserPromise, promises, inflight>>
           ELSE BeginFetch(c, "defaults", base, Tail(microtasks))
      /\ UNCHANGED <<cachedCurrentUser, cachedAccountTimeZone, cachedTaskDefaults,
                     envTimeZone, tm, nm, lm, sv, hourCycle>>

\* an operation after its task defaults lookup: the request is built and sent
DefaultsResume(c) ==
  /\ AtHead(c, "caller_resume")
  /\ calls[c].stage = "defaults"
  /\ calls' = [calls EXCEPT ![c] = Complete(@)]
  /\ microtasks' = Tail(microtasks)
  /\ UNCHANGED <<cachedCurrentUser, cachedCurrentUserPromise, cachedAccountTimeZone,
                 cachedTaskDefaults, envTimeZone, promises, inflight, tm, nm, lm, sv, hourCycle>>

\* the local time of the operations, 2026-01-05T08:00:00, resolves to the same
\* instant under either hour cycle in every zone of the model, and the other
\* steps render no time: one hour cycle stands for both
Init ==
  /\ ModuleLoaded
  /\ hourCycle = "h23"
  /\ envTimeZone \in {Undefined, EnvTimeZone}
  /\ tm = TimeIdle
  /\ nm = NormIdle
  /\ lm = ListIdle
  /\ sv = ServerIdle

Next ==
  \/ StartBootstrap
  \/ \E op \in Operations, a \in CallArgs :
       Len(calls) < 1 + MaxCalls /\ StartCall(op, a[1], a[2])
  \/ Len(calls) < 1 + MaxCalls /\ GetTaskDefaultsCall
  \/ \E p \in inflight, a \in Answers : GetResponds(p, a, ServerUser)
  \/ \E c \in DOMAIN calls : FinallyStep(c)
  \/ \E c \in DOMAIN calls : FetchResume(c)
  \/ \E c \in DOMAIN calls : CatchHop(c)
  \/ \E c \in DOMAIN calls : BootstrapResume(c)
  \/ \E c \in DOMAIN calls : ZoneResume(c)
  \/ \E c \in DOMAIN calls : DefaultsResume(c)

Spec == Init /\ [][Next]_vars

(***************************************************************************)
(* SpecOps: the same process, its operations called with arguments that    *)
(* fail as well as with arguments that pass.                               *)
(***************************************************************************)
\* operations started after the bootstrap
MaxOps == 1

NextOps ==
  \/ StartBootstrap
  \/ \E op \in Operations, a \in CallArgs \cup FailingArgs :
       Len(calls) < 1 + MaxOps /\ StartCall(op, a[1], a[2])
  \/ Len(calls) < 1 + MaxOps /\ GetTaskDefaultsCall
  \/ \E p \in inflight, a \in Answers : GetResponds(p, a, ServerUser)
  \/ \E c \in DOMAIN calls : FinallyStep(c)
  \/ \E c \in DOMAIN calls : FetchResume(c)
  \/ \E c \in DOMAIN calls : CatchHop(c)
  \/ \E c \in DOMAIN calls : BootstrapResume(c)
  \/ \E c \in DOMAIN calls : ZoneResume(c)
  \/ \E c \in DOMAIN calls : DefaultsResume(c)

SpecOps == Init /\ [][NextOps]_vars

(***************************************************************************)
(* SpecTime: parseDeadline on bounded inputs.                              *)
(***************************************************************************)
ModelDates ==
  {<<2026, 1, 5>>, <<2026, 3, 8>>, <<2026, 11, 1>>, <<2026, 3, 29>>,
   <<2026, 10, 25>>, <<2026, 4, 5>>, <<2026, 10, 4>>, <<2026, 2, 30>>}
ModelHours == (0..MaxHour) \cup {8, 25}
ModelMinutes == {0, 30}
ModelSecMs == {<<0, 0>>, <<59, 500>>}
ModelOffsets == {-480, 0, 330}

LocalInputs ==
  {StrLocal(d[1], d[2], d[3], h, mi, sm[1], sm[2]) :
     d \in ModelDates, h \in ModelHours, mi \in ModelMinutes, sm \in ModelSecMs}
DateInputs == {StrDate(d[1], d[2], d[3]) : d \in ModelDates}
OffsetInputs ==
  {StrOffset(d[1], d[2], d[3], h, 0, sm[1], sm[2], off) :
     d \in {<<2026, 1, 5>>, <<2026, 3, 8>>, <<2026, 2, 30>>}, h \in {1, 8, 25},
     sm \in ModelSecMs, off \in ModelOffsets}
\* offsets the regular expression takes and the engine may not: +24:00,
\* -25:00, +24:59, +05:60, and the largest every parser takes, +23:59; each
\* after a T and after a space
WrittenOffsets ==
  {<<1, 24, 0>>, <<-1, 25, 0>>, <<1, 24, 59>>, <<1, 5, 60>>, <<1, 23, 59>>}
WrittenOffsetInputs ==
  {StrWrittenOffset(2026, 1, 5, 8, 0, 0, 0, w[1], w[2], w[3]) : w \in WrittenOffsets}
    \cup {StrSpacedOffset(2026, 1, 5, 8, 0, 0, 0, w[1], w[2], w[3]) : w \in WrittenOffsets}
    \cup {StrSpacedOffset(2026, 3, 8, 24, 0, 0, 0, 1, 24, 59),
          StrSpacedOffset(2026, 1, 5, 8, 0, 0, 0, -1, 8, 0)}
\* dates written with slashes
SlashInputs ==
  {StrSlashDate(2026, 1, 5), StrSlashDate(2026, 3, 8), StrSlashDate(2026, 2, 30),
   StrSlashDate(2026, 13, 1)}
\* strings LOCAL_DATETIME_REGEX matches that name no date or no time of day
OutOfRangeInputs ==
  {StrLocal(2026, 13, 5, 9, 0, 0, 0), StrLocal(2026, 0, 5, 9, 0, 0, 0),
   StrLocal(2026, 1, 32, 9, 0, 0, 0), StrLocal(2026, 1, 0, 9, 0, 0, 0),
   StrLocal(2026, 1, 5, 24, 0, 0, 0), StrLocal(2026, 1, 5, 9, 60, 0, 0),
   StrLocal(2026, 1, 5, 9, 0, 60, 0), StrLocal(2026, 2, 30, 9, 0, 0, 0),
   StrLocal(2026, 2, 29, 9, 0, 0, 0), StrLocal(2026, 4, 31, 9, 0, 0, 0),
   StrDate(2026, 2, 29), StrDate(2026, 13, 1), StrDate(2026, 6, 31)}
StringInputs ==
  LocalInputs \cup DateInputs \cup OffsetInputs \cup WrittenOffsetInputs
    \cup SlashInputs \cup OutOfRangeInputs \cup {StrOther, StrEmpty}
RelativeInputs == {NumDays(n) : n \in 0..2} \cup {NoInput}

ZoneArgs ==
  {Undefined, " ", "America/Los_Angeles", " America/New_York ", "Europe/Berlin",
   "Australia/Lord_Howe", "Antarctica/Troll", "America/Havana", "Mars/Phobos"}
EnvZones == {Undefined, "", "UTC", "Mars/Phobos"}
CachedZones == {Undefined, "America/New_York"}
MachineZones == {"UTC", "America/Los_Angeles"}
ModelNows ==
  {Inst(DateUTC(2026, 1, 5, 12, 0, 0), 0), Inst(DateUTC(2026, 3, 7, 18, 30, 15), 250),
   Inst(DateUTC(2026, 10, 31, 8, 30, 0), 0)}
Contexts ==
  {Ctx(e, c, m, FixedNow) : e \in EnvZones, c \in CachedZones, m \in MachineZones}

TimeCall(i, z, c) ==
  [phase |-> "called", input |-> i, timeZone |-> z, ctx |-> c, result |-> NoResult]

InitTime ==
  /\ ModuleLoaded
  /\ hourCycle \in HourCycles
  /\ envTimeZone = Undefined
  /\ nm = NormIdle
  /\ lm = ListIdle
  /\ sv = ServerIdle
  /\ \/ \E i \in StringInputs, z \in ZoneArgs, c \in Contexts : tm = TimeCall(i, z, c)
     \/ \E i \in RelativeInputs, m \in MachineZones, n \in ModelNows :
          tm = TimeCall(i, Undefined, Ctx(Undefined, Undefined, m, n))

ParseDeadlineCall ==
  /\ tm.phase = "called"
  /\ tm' = [tm EXCEPT !.phase = "returned",
                      !.result = parseDeadline(tm.input, tm.timeZone, tm.ctx)]
  /\ UNCHANGED <<loopVars, nm, lm, sv, hourCycle>>

NextTime == ParseDeadlineCall

SpecTime == InitTime /\ [][NextTime]_vars

(***************************************************************************)
(* SpecNorm: the create and update tools on bounded inputs.                *)
(***************************************************************************)
\* chunk counts 1..MaxChunks are enumerated for every chunk field
MaxChunks == 3

ChunkCounts == 1..MaxChunks
\* minutes inputs: 20 is no multiple of the chunk
MinuteCounts == {20, 30, 60}

\* a chunk field and its minutes input: neither, one of them, or both
Slots ==
  {<<None, None>>, <<Some(1), Some(30)>>}
    \cup {<<Some(k), None>> : k \in ChunkCounts}
    \cup {<<None, Some(m)>> : m \in MinuteCounts}

ChunkParams ==
  {[EmptyTask EXCEPT !.title = "T",
      !.timeChunksRequired = t[1], !.durationMinutes = t[2],
      !.minChunkSize = lo[1], !.minDurationMinutes = lo[2],
      !.maxChunkSize = hi[1], !.maxDurationMinutes = hi[2],
      !.lockChunkSizeToDuration = l] :
     t \in Slots, lo \in Slots, hi \in Slots, l \in {None, Some(TRUE)}}

\* chunk fields handed to the client functions directly
ChunkData ==
  {[EmptyTask EXCEPT !.title = "T", !.timeChunksRequired = t, !.minChunkSize = lo,
                     !.maxChunkSize = hi] :
     t \in {None} \cup {Some(k) : k \in ChunkCounts},
     lo \in {None} \cup {Some(k) : k \in ChunkCounts},
     hi \in {None} \cup {Some(k) : k \in ChunkCounts}}

ChunkDefaults ==
  {[EmptyDefaults EXCEPT !.timeChunksRequired = t, !.minChunkSize = lo,
                         !.maxChunkSize = hi] :
     t \in {None, Some(0), Some(2), Some(5)}, lo \in {None, Some(3)},
     hi \in {None, Some(2)}}

\* enumerated fields as the schema of the tools admits them
EnumParams ==
  {[EmptyTask EXCEPT !.title = "T", !.eventCategory = c, !.eventSubType = st,
      !.priority = p, !.onDeck = od, !.status = sc[1], !.eventColor = sc[2]] :
     c \in {Undefined, "WORK", "PERSONAL"}, st \in {Undefined, "errands", "meeting"},
     p \in {Undefined, "P1", "P4"}, od \in {None, Some(FALSE)},
     sc \in {<<Undefined, Undefined>>, <<"COMPLETE", Undefined>>,
             <<"ARCHIVED", "SAGE">>}}

\* task data handed to the exported client functions directly: any spelling,
\* and the fields the tools have no input for
EnumData ==
  {[EmptyTask EXCEPT !.title = "T", !.eventCategory = c, !.eventSubType = st,
      !.priority = p, !.onDeck = od, !.alwaysPrivate = ap, !.timeSchemeId = ts] :
     c \in {Undefined, "WORK", "personal"}, st \in {Undefined, "errands", "meeting"},
     p \in {Undefined, "P1", "p4", "DEFAULT", "prioritize"},
     od \in {None, Some(FALSE)}, ap \in {None, Some(TRUE)},
     ts \in {Undefined, "scheme-A"}}

\* the account holds onDeck, alwaysPrivate and timeSchemeId, or none of them
EnumDefaults ==
  {[EmptyDefaults EXCEPT !.category = c, !.priority = p,
      !.onDeck = IF held THEN Some(TRUE) ELSE None,
      !.alwaysPrivate = IF held THEN Some(FALSE) ELSE None,
      !.timeSchemeId = IF held THEN "scheme-D" ELSE Undefined] :
     c \in {Undefined, "PERSONAL", " Work "}, p \in {Undefined, "P2", "urgent"},
     held \in BOOLEAN}

DateFieldValues ==
  {NoInput, StrLocal(2026, 1, 5, 8, 0, 0, 0), StrLocal(2026, 2, 30, 9, 0, 0, 0),
   StrOffset(2026, 1, 6, 8, 0, 0, 0, -480), NumDays(2)}

StartTimes == {StrLocal(2026, 1, 5, 9, 0, 0, 0), StrLocal(2026, 1, 5, 25, 0, 0, 0)}

\* date fields as the schema of the tools admits them
DateParams ==
  {[EmptyTask EXCEPT !.title = "T", !.timeChunksRequired = t, !.deadline = dl,
      !.snoozeUntil = sn, !.startTime = st] :
     t \in {None, Some(2)}, dl \in DateFieldValues,
     sn \in {NoInput, StrDate(2026, 1, 4)}, st \in {NoInput} \cup StartTimes}

\* date fields handed to the client functions directly: a due, and a string
\* that is no date
DateData ==
  {[EmptyTask EXCEPT !.title = "T", !.timeChunksRequired = t, !.deadline = dl,
      !.due = du, !.snoozeUntil = sn] :
     t \in {None, Some(2)}, dl \in {NoInput, StrLocal(2026, 1, 5, 8, 0, 0, 0)},
     du \in {NoInput, StrDate(2026, 1, 7)},
     sn \in {NoInput, StrDate(2026, 1, 4), StrOther}}

DateDefaults ==
  {[EmptyDefaults EXCEPT !.dueInDays = d, !.timeChunksRequired = t] :
     d \in {None, Some(0), Some(3)}, t \in {None, Some(4)}}

AllDefaults == ChunkDefaults \cup EnumDefaults \cup DateDefaults

\* updates that name the task and little else: nothing, a lock flag that is
\* off, a time scheme that is the empty string, empty notes, a deadline, a
\* status, an event colour
BareUpdates ==
  {EmptyTask, [EmptyTask EXCEPT !.lockChunkSizeToDuration = Some(FALSE)],
   [EmptyTask EXCEPT !.timeSchemeId = ""], [EmptyTask EXCEPT !.notes = ""],
   [EmptyTask EXCEPT !.deadline = NumDays(2)],
   [EmptyTask EXCEPT !.status = "COMPLETE"],
   [EmptyTask EXCEPT !.eventColor = "SAGE"],
   [EmptyTask EXCEPT !.status = "COMPLETE", !.lockChunkSizeToDuration = Some(FALSE)]}

Tools == {"reclaim_create_task", "reclaim_update_task"}
ClientFunctions == {"createTask", "createTaskAtTime", "updateTask"}
CallZones == {Undefined, "America/Los_Angeles", "Mars/Phobos"}
AccountZones == {Undefined, "America/New_York"}

\* a call of a tool or of a client function, on a process that has no
\* process default zone and has not looked its account up yet; account is
\* the account of the user at the service
NormCall(tool, params, timeZone, account) ==
  [phase |-> "called", tool |-> tool, params |-> params, timeZone |-> timeZone,
   account |-> account,
   ctx |-> Ctx(Undefined, Undefined, MachineTimeZone, FixedNow),
   normalized |-> NoResult, outcome |-> Thrown("<pending>", FALSE)]

InitNorm ==
  /\ ModuleLoaded
  /\ hourCycle \in HourCycles
  /\ envTimeZone = Undefined
  /\ tm = TimeIdle
  /\ lm = ListIdle
  /\ sv = ServerIdle
  /\ \/ \E tool \in Tools, p \in ChunkParams, d \in ChunkDefaults :
          nm = NormCall(tool, p, "America/Los_Angeles", Account(Undefined, d))
     \/ \E tool \in Tools, p \in EnumParams, d \in EnumDefaults :
          nm = NormCall(tool, p, "America/Los_Angeles", Account(Undefined, d))
     \/ \E tool \in Tools, p \in DateParams, d \in DateDefaults, z \in CallZones,
           a \in AccountZones :
          nm = NormCall(tool, p, z, Account(a, d))
     \/ \E f \in {"createTask", "updateTask"}, p \in EnumData, d \in EnumDefaults :
          nm = NormCall(f, p, "America/Los_Angeles", Account(Undefined, d))
     \/ \E f \in {"createTask", "updateTask"}, p \in DateData, d \in DateDefaults,
           z \in CallZones, a \in AccountZones :
          nm = NormCall(f, p, z, Account(a, d))
     \/ \E f \in ClientFunctions, p \in ChunkData, d \in ChunkDefaults :
          nm = NormCall(f, [p EXCEPT !.startTime =
                                       IF f = "createTaskAtTime"
                                         THEN StrLocal(2026, 1, 5, 9, 0, 0, 0)
                                         ELSE NoInput],
                        "America/Los_Angeles", Account(Undefined, d))
     \/ \E p \in DateData, st \in StartTimes, d \in DateDefaults, z \in CallZones,
           a \in AccountZones :
          nm = NormCall("createTaskAtTime", [p EXCEPT !.startTime = st], z,
                        Account(a, d))
     \/ \E f \in {"reclaim_update_task", "updateTask"}, p \in BareUpdates,
           d \in AllDefaults :
          /\ f = "reclaim_update_task" => p.timeSchemeId = Undefined
          /\ f = "updateTask" => p.lockChunkSizeToDuration = None
          /\ nm = NormCall(f, p, "America/Los_Angeles", Account(Undefined, d))

\* the handler of a tool: the error it throws before it calls the client, or
\* the client function it calls, which runs up to its first await
ToolBegins(normalized, call) ==
  IF ~call.ok
    THEN /\ nm' = [nm EXCEPT !.phase = "returned", !.normalized = normalized,
                             !.outcome = Thrown(call.error, FALSE)]
         /\ UNCHANGED loopVars
    ELSE /\ nm' = [nm EXCEPT !.phase = "awaiting", !.normalized = normalized]
         /\ BeginCall(call.value.op, nm.timeZone, call.value.input, call.value.data)

CreateTool ==
  /\ nm.phase = "called"
  /\ nm.tool = "reclaim_create_task"
  /\ ToolBegins(normalizeChunkInputs(nm.params), reclaim_create_task(nm.params))
  /\ UNCHANGED <<tm, lm, sv, hourCycle>>

UpdateTool ==
  /\ nm.phase = "called"
  /\ nm.tool = "reclaim_update_task"
  /\ ToolBegins(normalizeChunkInputs(nm.params), reclaim_update_task(nm.params))
  /\ UNCHANGED <<tm, lm, sv, hourCycle>>

\* a direct call of an exported client function, which runs up to its first
\* await: normalized is the task data it was given
ClientBegins(op, input, data) ==
  /\ nm' = [nm EXCEPT !.phase = "awaiting", !.normalized = Ok(data)]
  /\ BeginCall(op, nm.timeZone, input, data)

CreateTaskCall ==
  /\ nm.phase = "called"
  /\ nm.tool = "createTask"
  /\ ClientBegins("createTask", NoInput, nm.params)
  /\ UNCHANGED <<tm, lm, sv, hourCycle>>

CreateTaskAtTimeCall ==
  /\ nm.phase = "called"
  /\ nm.tool = "createTaskAtTime"
  /\ ClientBegins("createTaskAtTime", nm.params.startTime, StripToolFields(nm.params))
  /\ UNCHANGED <<tm, lm, sv, hourCycle>>

UpdateTaskCall ==
  /\ nm.phase = "called"
  /\ nm.tool = "updateTask"
  /\ ClientBegins("updateTask", NoInput, nm.params)
  /\ UNCHANGED <<tm, lm, sv, hourCycle>>

\* the body of GET /users/current for an account
UserOf(account) == [timezone |-> account.timeZone, defaults |-> Some(account.defaults)]

\* the client function is over: the task service has its request, or the
\* function has thrown, and the caller has the outcome
ClientReturns ==
  /\ nm.phase = "awaiting"
  /\ calls[1].pc = "done"
  /\ nm' = [nm EXCEPT !.phase = "returned", !.outcome = calls[1].outcome,
                      !.ctx = calls[1].ctx]
  /\ UNCHANGED <<loopVars, tm, lm, sv, hourCycle>>

\* the lookups of the call are answered with the record of the account
NextNorm ==
  \/ CreateTool
  \/ UpdateTool
  \/ CreateTaskCall
  \/ CreateTaskAtTimeCall
  \/ UpdateTaskCall
  \/ \E p \in inflight : GetResponds(p, "user", UserOf(nm.account))
  \/ \E c \in DOMAIN calls : FinallyStep(c)
  \/ \E c \in DOMAIN calls : FetchResume(c)
  \/ \E c \in DOMAIN calls : CatchHop(c)
  \/ \E c \in DOMAIN calls : ZoneResume(c)
  \/ \E c \in DOMAIN calls : DefaultsResume(c)
  \/ ClientReturns

SpecNorm == InitNorm /\ [][NextNorm]_vars

(***************************************************************************)
(* SpecList: reclaim_list_tasks and the tasks://active resource on bounded *)
(* answers to GET /tasks.                                                  *)
(***************************************************************************)
\* the longest task list the service answers with
MaxTasks == 3

\* a task of the service: status and deleted, the latter possibly missing;
\* an entry of the list may also be null
Task(status, deleted) == [null |-> FALSE, id |-> 0, status |-> status, deleted |-> deleted]
NullTask == [null |-> TRUE, id |-> 0, status |-> Undefined, deleted |-> None]

\* !task.deleted
NotDeleted(task) == task.deleted = None \/ task.deleted = Some(FALSE)

\* a variant that takes a task whose scheduled time is over for a finished one
IsActiveUnlessComplete(task) ==
  /\ ~task.null
  /\ NotDeleted(task)
  /\ task.status \notin {"ARCHIVED", "CANCELLED", "COMPLETE"}

\* the predicate of the filter
IsActive(task) ==
  /\ ~task.null
  /\ NotDeleted(task)
  /\ task.status # "ARCHIVED"
  /\ task.status # "CANCELLED"

\* data is [array |-> whether it is an array, items |-> its elements]
filterActiveTasks(tasks) ==
  IF ~tasks.array THEN [array |-> TRUE, items |-> <<>>]
  ELSE [array |-> TRUE, items |-> SelectSeq(tasks.items, IsActive)]

\* listTasks once GET /tasks is answered: the array, [] for any other body,
\* the error of handleApiError for a failed request
listTasks(answer, data) ==
  IF answer = "error" THEN Fail("API Call Failed (listTasks)")
  ELSE IF data.array THEN Ok(data) ELSE Ok([array |-> TRUE, items |-> <<>>])

\* wrapApiCall / wrapResourceCall: the list as JSON text, which keeps the
\* entries and their order, or the error
Wrapped(r) ==
  IF r.ok THEN [isError |-> FALSE, tasks |-> r.value.items]
  ELSE [isError |-> TRUE, tasks |-> <<>>]

\* allTasksPromise.then(...) of the tool
reclaim_list_tasks(filter, answer, data) ==
  LET all == listTasks(answer, data)
  IN  Wrapped(IF ~all.ok THEN all
              ELSE IF filter = "active" THEN Ok(filterActiveTasks(all.value))
              ELSE all)

\* listTasks().then(filterActiveTasks) of the resource
reclaim_active_tasks(answer, data) ==
  LET all == listTasks(answer, data)
  IN  Wrapped(IF ~all.ok THEN all ELSE Ok(filterActiveTasks(all.value)))

TaskStatuses == {"NEW", "COMPLETE", "ARCHIVED", "CANCELLED"}
ListEntries ==
  {Task(st, Some(d)) : st \in TaskStatuses, d \in BOOLEAN}
    \cup {Task("COMPLETE", None), NullTask}

\* the lists of up to MaxTasks entries, the task at place i having the id i
WithIds(f) == [i \in DOMAIN f |-> IF f[i].null THEN f[i] ELSE [f[i] EXCEPT !.id = i]]
TaskLists == UNION {{WithIds(f) : f \in [1..n -> ListEntries]} : n \in 0..MaxTasks}

\* filter as the handler receives it: the schema turns a missing one into "active"
Filters == {"active", "all"}

\* a listing called: the answer of the service is not there yet
ListCall(entry, filter) ==
  [phase |-> "called", entry |-> entry, filter |-> filter, answer |-> "",
   data |-> [array |-> FALSE, items |-> <<>>],
   result |-> [isError |-> FALSE, tasks |-> <<>>]]

\* the answers of the service to GET /tasks: an array of tasks, a body that
\* is no array, a failed request
TaskAnswers ==
  {<<"array", [array |-> TRUE, items |-> l]>> : l \in TaskLists}
    \cup {<<"other", [array |-> FALSE, items |-> <<>>]>>,
          <<"error", [array |-> FALSE, items |-> <<>>]>>}

InitList ==
  /\ ModuleLoaded
  /\ hourCycle = "h23"
  /\ envTimeZone = Undefined
  /\ tm = TimeIdle
  /\ nm = NormIdle
  /\ sv = ServerIdle
  /\ \E entry \in {"reclaim_list_tasks", "tasks://active"}, filter \in Filters :
       /\ entry = "tasks://active" => filter = "active"
       /\ lm = ListCall(entry, filter)

\* the handler of the tool up to the await of listTasks: GET /tasks is sent
ListTasksTool ==
  /\ lm.phase = "called"
  /\ lm.entry = "reclaim_list_tasks"
  /\ lm' = [lm EXCEPT !.phase = "requested"]
  /\ UNCHANGED <<loopVars, tm, nm, sv, hourCycle>>

\* the handler of the resource up to the await of listTasks: GET /tasks is sent
ActiveTasksResource ==
  /\ lm.phase = "called"
  /\ lm.entry = "tasks://active"
  /\ lm' = [lm EXCEPT !.phase = "requested"]
  /\ UNCHANGED <<loopVars, tm, nm, sv, hourCycle>>

\* GET /tasks is answered: listTasks returns or throws, and the handler that
\* awaited it filters and wraps the result
TasksRespond(answer, data) ==
  /\ lm.phase = "requested"
  /\ lm' = [lm EXCEPT !.phase = "returned", !.answer = answer, !.data = data,
                      !.result = IF lm.entry = "reclaim_list_tasks"
                                   THEN reclaim_list_tasks(lm.filter, answer, data)
                                   ELSE reclaim_active_tasks(answer, data)]
  /\ UNCHANGED <<loopVars, tm, nm, sv, hourCycle>>

NextList ==
  \/ ListTasksTool
  \/ ActiveTasksResource
  \/ \E a \in TaskAnswers : TasksRespond(a[1], a[2])

SpecList == InitList /\ [][NextList]_vars

(***************************************************************************)
(* SpecServer: main() of index.ts started under a bounded set of           *)
(* environments and, once the Streamable HTTP server runs in session mode, *)
(* the requests its POST, GET and DELETE routes receive.                   *)
(***************************************************************************)
\* the sessions the process initializes in one run
MaxSessions == 2

\* String.prototype.toLowerCase on the MCP_TRANSPORT values of the model
ToLowerCase(str) ==
  CASE str = "HTTP" -> "http"
    [] str = "Stdio" -> "stdio"
    [] OTHER -> str

\* Number(process.env.MCP_HTTP_PORT || 3000): None stands for NaN
PortNumber(port) ==
  CASE ~Truthy(port) -> Some(3000)
    [] port = "3000" -> Some(3000)
    [] port = "8080" -> Some(8080)
    [] port = "0" -> Some(0)
    [] OTHER -> None

\* startHttpServer up to app.listen: process.exit(1) on a port that is not a
\* positive number, else the routes of the stateless or of the session mode
startHttpServer(env) ==
  LET port == PortNumber(env.MCP_HTTP_PORT)
  IN  IF port = None \/ port[1] <= 0 THEN "exit"
      ELSE IF env.MCP_HTTP_STATELESS = "true" THEN "http-stateless"
      ELSE "http-session"

\* main up to the start of a server: ensureApiKey, then the transport the
\* environment selects; "exit" stands for process.exit(1)
SelectTransport(env) ==
  LET transportMode ==
        ToLowerCase(IF Truthy(env.MCP_TRANSPORT) THEN env.MCP_TRANSPORT ELSE "")
  IN  IF ~Truthy(env.RECLAIM_API_KEY) THEN "exit"
      ELSE IF transportMode = "http" THEN "http"
      ELSE IF transportMode = "" /\ Truthy(env.MCP_HTTP_PORT) THEN "http"
      ELSE IF transportMode # "" /\ transportMode # "stdio" THEN "exit"
      ELSE "stdio"

\* main: the result is the server started, or "exit"
main(env) ==
  IF SelectTransport(env) = "http" THEN startHttpServer(env) ELSE SelectTransport(env)

\* what a route does with a request: hand it to the transport of its
\* session, hand it to a new transport, or answer it itself
ToExisting == [status |-> 0, message |-> "", handled |-> "existing"]
ToNew == [status |-> 0, message |-> "", handled |-> "new"]
sendSessionError(status, message) ==
  [status |-> status, message |-> message, handled |-> "none"]
sendMissingSession == sendSessionError(400, "Missing session")
sendUnknownSession == sendSessionError(404, "Unknown session")

\* a variant of the POST route that looks at the body before the header
postRouteInitializeFirst(transports, sessionId, initialize) ==
  IF Truthy(sessionId) /\ sessionId \in transports THEN ToExisting
  ELSE IF initialize THEN ToNew
  ELSE IF ~Truthy(sessionId) THEN sendMissingSession
  ELSE sendUnknownSession

\* app.post(path, ...) of the session mode; transports is the set of the
\* keys of the map, initialize is isInitializeRequest(req.body)
postRoute(transports, sessionId, initialize) ==
  IF Truthy(sessionId) /\ sessionId \in transports THEN ToExisting
  ELSE IF ~Truthy(sessionId) /\ initialize THEN ToNew
  ELSE IF ~Truthy(sessionId) THEN sendMissingSession
  ELSE sendUnknownSession

\* app.get(path, ...) and app.delete(path, ...) of the session mode
sessionRoute(transports, sessionId) ==
  IF ~Truthy(sessionId) THEN sendMissingSession
  ELSE IF sessionId \notin transports THEN sendUnknownSession
  ELSE ToExisting

\* randomUUID(): the i-th identifier generated differs from the earlier ones
SessionId(i) == <<"session-1", "session-2", "session-3", "session-4">>[i]

\* the environments main is started under
Environments ==
  [MCP_TRANSPORT : {Undefined, "", "stdio", "Stdio", "http", "HTTP", "sse"},
   MCP_HTTP_PORT : {Undefined, "3000", "8080", "0", "abc"},
   MCP_HTTP_STATELESS : {Undefined, "true"},
   RECLAIM_API_KEY : {Undefined, "key"}]

\* the mcp-session-id headers requests carry: none, an empty one, the
\* identifiers the server generates, and one it never generated
SessionHeaders ==
  {Undefined, "", "unknown"} \cup {SessionId(i) : i \in 1..MaxSessions}

InitServer ==
  /\ ModuleLoaded
  /\ hourCycle = "h23"
  /\ envTimeZone \in {Undefined, EnvTimeZone}
  /\ tm = TimeIdle
  /\ nm = NormIdle
  /\ lm = ListIdle
  /\ \E env \in Environments : sv = [ServerIdle EXCEPT !.phase = "loaded", !.env = env]

\* main().catch(...) at the end of the module: startStdioServer and
\* startHttpServer start the lookup of the default zone before they do
\* anything else
Main ==
  /\ sv.phase = "loaded"
  /\ sv' = [sv EXCEPT !.phase = main(sv.env)]
  /\ IF SelectTransport(sv.env) = "exit" THEN UNCHANGED loopVars ELSE BeginBootstrap
  /\ UNCHANGED <<tm, nm, lm, hourCycle>>

\* the process has not exited
Running == sv.phase \in {"stdio", "http-session", "http-stateless"}

Served(method, sessionId, initialize, response) ==
  [sv EXCEPT !.served = (@ + 1) % 2,
             !.request = [method |-> method, sessionId |-> sessionId,
                          initialize |-> initialize],
             !.response = response]

\* a POST to the path, up to the first await of its handler: the request is
\* handed to the transport of its session or answered with an error, or a
\* new transport is made and the server begins to connect to it
PostRequest(sessionId, initialize) ==
  /\ sv.phase = "http-session"
  /\ LET response == postRoute(sv.transports, sessionId, initialize)
     IN  /\ response.handled = "new" => sv.issued + sv.connecting < MaxSessions
         /\ sv' = [Served("POST", sessionId, initialize, response) EXCEPT
                     !.connecting = IF response.handled = "new" THEN @ + 1 ELSE @]
  /\ UNCHANGED <<loopVars, tm, nm, lm, hourCycle>>

\* after await server.connect(transport) the initialize request is handed to
\* the new transport.  The transport is the SDK's: it either generates a
\* session identifier and reports it through onsessioninitialized, or rejects
\* the request and reports nothing (accepted says which)
Connected(accepted) ==
  /\ sv.phase = "http-session"
  /\ sv.connecting > 0
  /\ sv' = [sv EXCEPT
              !.connecting = @ - 1,
              !.issued = IF accepted THEN @ + 1 ELSE @,
              !.transports = IF accepted THEN @ \cup {SessionId(sv.issued + 1)} ELSE @]
  /\ UNCHANGED <<loopVars, tm, nm, lm, hourCycle>>

\* a GET to the path: the transport opens the stream of the session
GetRequest(sessionId) ==
  /\ sv.phase = "http-session"
  /\ sv' = Served("GET", sessionId, FALSE, sessionRoute(sv.transports, sessionId))
  /\ UNCHANGED <<loopVars, tm, nm, lm, hourCycle>>

\* a DELETE to the path: the transport it is handed to either closes the
\* session, which reports it through onsessionclosed and onclose, or
\* rejects the request (accepted says which)
DeleteRequest(sessionId, accepted) ==
  /\ sv.phase = "http-session"
  /\ LET response == sessionRoute(sv.transports, sessionId)
         closes == response.handled = "existing" /\ accepted
     IN  sv' = [Served("DELETE", sessionId, FALSE, response) EXCEPT
                  !.transports = IF closes THEN @ \ {sessionId} ELSE @]
  /\ UNCHANGED <<loopVars, tm, nm, lm, hourCycle>>

NextServer ==
  \/ Main
  \/ \E id \in SessionHeaders, initialize \in BOOLEAN : PostRequest(id, initialize)
  \/ \E accepted \in BOOLEAN : Connected(accepted)
  \/ \E id \in SessionHeaders : GetRequest(id)
  \/ \E id \in SessionHeaders, accepted \in BOOLEAN : DeleteRequest(id, accepted)
  \/ Running /\ \E p \in inflight, a \in Answers : GetResponds(p, a, ServerUser)
  \/ Running /\ \E c \in DOMAIN calls : FinallyStep(c)
  \/ Running /\ \E c \in DOMAIN calls : FetchResume(c)
  \/ Running /\ \E c \in DOMAIN calls : BootstrapResume(c)

SpecServer == InitServer /\ [][NextServer]_vars

(***************************************************************************)
(* Properties of the account lookup (Spec).                                *)
(***************************************************************************)
\* the calls suspended in fetchCurrentUser on promise p
WaitingOn(p) == {c \in DOMAIN calls : calls[c].pc = "fcu_wait" /\ calls[c].awaiting = p}

\* C1: at most one GET /users/current is in flight at any moment, and every
\* call suspended in the lookup of the current user waits for the request in
\* flight instead of having issued one of its own
C1_SingleRequestInFlight ==
  /\ Cardinality(inflight) <= 1
  /\ \A c \in DOMAIN calls : calls[c].pc = "fcu_wait" => calls[c].awaiting \in inflight

\* the request of the bootstrap has failed; an operation called before the
\* bootstrap ran its finally block awaited the failed request, and its own
\* finally block cleared the handle of the second request, issued by a call
\* made in between: its lookup of the task defaults has issued a third
\* request while the second is in flight
C1_TwoRequestsInFlight ==
  /\ Len(promises) = 3
  /\ promises[1].state = "rejected"
  /\ inflight = {2, 3}
  /\ cachedCurrentUserPromise = 3
  /\ \E c \in DOMAIN calls :
       /\ calls[c].op \in Operations
       /\ calls[c].rejected = {"tz"}
       /\ calls[c].stage = "defaults"
       /\ calls[c].pc = "fcu_wait"
       /\ calls[c].awaiting = 3
       /\ calls[c].issued = 1

\* the instant an operation sent for its local date/time: the due of the
\* body, or the startTime / end query parameter
SentInstant(r) ==
  IF r.op \in {"createTask", "updateTask"} THEN r.outcome.payload.due
  ELSE r.outcome.query

\* the local date/time of the operations read in a zone
InstantIn(zone) ==
  Some(ToISOString(zonedTimeToUtc(CallInput.year, CallInput.month, CallInput.day,
                                  CallInput.hour, CallInput.minute, CallInput.second,
                                  CallInput.ms, zone)))

\* C2: the local date/time of createTask, createTaskAtTime, updateTask and
\* logWorkForTask is converted in the first populated zone source in the order
\* per-call argument, MCP_DEFAULT_TIMEZONE, account zone, machine zone
C2_FirstPopulatedZoneWins ==
  \A c \in DOMAIN calls :
    calls[c].pc = "done" /\ calls[c].op \in Operations =>
      /\ calls[c].outcome.kind = "request"
      /\ SentInstant(calls[c]) = InstantIn(calls[c].firstPopulated)

\* an operation with a blank zone argument, no process default and the user
\* record with the account zone in the cache has sent the instant of the
\* machine zone
C2_MachineZoneUsedBeforeAccountZone ==
  \E c \in DOMAIN calls :
    /\ calls[c].pc = "done"
    /\ calls[c].op = "createTask"
    /\ calls[c].timeZone = " "
    /\ ~Truthy(envTimeZone)
    /\ cachedCurrentUser = Some(ServerUser)
    /\ calls[c].firstPopulated = AccountTimeZone
    /\ SentInstant(calls[c]) = InstantIn(MachineTimeZone)

(***************************************************************************)
(* Properties of parseDeadline (SpecTime).                                 *)
(***************************************************************************)
\* the zone the call reads a string without offset in
UsedZone == resolveTimeZone(tm.timeZone, tm.ctx.env, tm.ctx.cached, tm.ctx.machine)

\* the call has returned from a valid local date/time in a valid zone
LocalCase ==
  /\ tm.phase = "returned"
  /\ tm.input.type = "string"
  /\ tm.input.form \in {"local", "date"}
  /\ assertValidLocalDateTime(tm.input) = ""
  /\ UsedZone \in ValidZones

\* the requested wall-clock time, in seconds on the naive time line
RequestedLocal ==
  DateUTC(tm.input.year, tm.input.month, tm.input.day, tm.input.hour,
          tm.input.minute, tm.input.second)

\* the requested wall-clock time read with each offset the zone takes
Readings == {RequestedLocal - o : o \in ZoneOffsets(UsedZone)}

\* the wall-clock time the zone shows at the instant u
Rendering(u) == u + ZoneOffsetSec(UsedZone, u)

\* the instants at which the zone shows the requested wall-clock time
Occurrences == {u \in Readings : Rendering(u) = RequestedLocal}

\* the readings that show the requested wall-clock time or a later one
LaterReadings == {u \in Readings : Rendering(u) >= RequestedLocal}

\* C3: a local date/time that occurs twice in the zone (fall-back overlap)
\* resolves to the earlier of its two UTC instants
C3_OverlapResolvesToEarlierInstant ==
  LocalCase /\ Cardinality(Occurrences) = 2 =>
    tm.result = Ok(ToISOString(Inst(CHOOSE u \in Occurrences :
                                      \A v \in Occurrences : u <= v,
                                    tm.input.ms)))

\* 2026-10-25T02:30:00 in Antarctica/Troll, which the zone shows at
\* 2026-10-25T00:30:00.000Z (+02:00) and at 02:30:00.000Z (+00:00), has
\* returned the later of the two, on an engine of either hour cycle: the
\* first approximation and its one-hour neighbours all lie after the
\* transition, so the offset +02:00 never becomes a candidate
C3_TrollLaterOccurrence ==
  /\ LocalCase
  /\ hourCycle = "h23"
  /\ tm.input = StrLocal(2026, 10, 25, 2, 30, 0, 0)
  /\ tm.timeZone = "Antarctica/Troll"
  /\ Occurrences = {RequestedLocal - 7200, RequestedLocal}
  /\ CandidateOffsets(Inst(RequestedLocal, 0), UsedZone) = <<0>>
  /\ tm.result = Ok(Iso(2026, 10, 25, 2, 30, 0, 0))

\* C4: a local date/time that does not occur in the zone (spring-forward gap)
\* resolves to the reading whose wall-clock time is the nearest at or after the
\* requested one, never to a reading before the gap
C4_GapResolvesToNearestLaterTime ==
  LocalCase /\ Occurrences = {} =>
    /\ tm.result.ok
    /\ FromISOString(tm.result.value).ms = tm.input.ms
    /\ FromISOString(tm.result.value).s \in LaterReadings
    /\ \A v \in LaterReadings :
         Rendering(FromISOString(tm.result.value).s) <= Rendering(v)

\* 2026-03-08T02:30:00 in America/Los_Angeles has returned 2026-03-08T10:30:00.000Z
C4_LosAngelesGap ==
  /\ LocalCase
  /\ tm.input = StrLocal(2026, 3, 8, 2, 30, 0, 0)
  /\ tm.timeZone = "America/Los_Angeles"
  /\ Occurrences = {}
  /\ tm.result = Ok(Iso(2026, 3, 8, 10, 30, 0, 0))

\* every resolution context: zones of the process, the account and the
\* machine, and the instant of the call
AllContexts ==
  {Ctx(e, c, m, n) : e \in EnvZones, c \in CachedZones, m \in MachineZones,
                     n \in ModelNows}

\* C5: a string with an explicit offset or Z gives the same result whatever
\* the zone argument, the process default, the cached account zone and the
\* machine zone are
C5_OffsetInputIgnoresContext ==
  tm.phase = "returned" /\ tm.input.type = "string" /\ tm.input.form = "offset" =>
    \A z \in ZoneArgs, c \in AllContexts : parseDeadline(tm.input, z, c) = tm.result

\* 2026-01-05T08:00:00-08:00 with zone argument Europe/Berlin and process
\* default UTC has returned 2026-01-05T16:00:00.000Z
C5_OffsetHonoured ==
  /\ tm.phase = "returned"
  /\ tm.input = StrOffset(2026, 1, 5, 8, 0, 0, 0, -480)
  /\ tm.timeZone = "Europe/Berlin"
  /\ tm.ctx.env = "UTC"
  /\ tm.result = Ok(Iso(2026, 1, 5, 16, 0, 0, 0))

(***************************************************************************)
(* Properties of the create and update flows (SpecNorm).                   *)
(***************************************************************************)
\* the task data the client function was given
TaskData == nm.normalized.value

\* the body of the request sent
Body == nm.outcome.payload

\* the zone of the call: its argument, else the process default, else the
\* zone of the account
ClientZone == ResolvedTimeZone(nm.timeZone, nm.ctx.env, nm.account.timeZone)

\* C6: when the explicit minimum chunk bound exceeds the explicit maximum after
\* conversion to chunks, the operation fails with the chunk-size conflict and
\* sends no request
C6_ExplicitConflictIsRejected ==
  /\ nm.phase = "returned"
  /\ nm.normalized.ok
  /\ TaskData.minChunkSize # None
  /\ TaskData.maxChunkSize # None
  /\ TaskData.minChunkSize[1] > TaskData.maxChunkSize[1]
  => /\ nm.outcome.kind = "error"
     /\ nm.outcome.error = ChunkSizeConflict

\* reclaim_create_task with minDurationMinutes 60 and maxDurationMinutes 30
\* has sent POST /tasks with both bounds at 4 chunks
C6_ConflictRepairedAndSent ==
  /\ nm.phase = "returned"
  /\ nm.tool = "reclaim_create_task"
  /\ nm.params.minDurationMinutes = Some(60)
  /\ nm.params.maxDurationMinutes = Some(30)
  /\ nm.params.lockChunkSizeToDuration = None
  /\ nm.outcome.kind = "request"
  /\ nm.outcome.method = "POST /tasks"
  /\ Body.minChunkSize = Some(4)
  /\ Body.maxChunkSize = Some(4)

\* C7: every request body with both chunk bounds has min <= max, and with a
\* total duration both bounds are at most the total
C7_SentBoundsAreOrdered ==
  /\ nm.phase = "returned"
  /\ nm.outcome.kind = "request"
  /\ Body.minChunkSize # None
  /\ Body.maxChunkSize # None
  => /\ Body.minChunkSize[1] <= Body.maxChunkSize[1]
     /\ Body.timeChunksRequired # None =>
          /\ Body.minChunkSize[1] <= Body.timeChunksRequired[1]
          /\ Body.maxChunkSize[1] <= Body.timeChunksRequired[1]

\* an explicit minimum of 3 chunks with a total of 2 was sent as 2
C7_BoundClampedToTotal ==
  /\ nm.phase = "returned"
  /\ nm.outcome.kind = "request"
  /\ nm.normalized.ok
  /\ TaskData.minChunkSize = Some(3)
  /\ TaskData.timeChunksRequired = Some(2)
  /\ Body.minChunkSize = Some(2)
  /\ Body.maxChunkSize = Some(2)

\* the tool call locks the chunk size and supplies a total duration
LockedWithTotal ==
  /\ nm.tool \in Tools
  /\ nm.params.lockChunkSizeToDuration = Some(TRUE)
  /\ nm.params.timeChunksRequired # None \/ nm.params.durationMinutes # None

\* C8: with lockChunkSizeToDuration and a total duration supplied, the create
\* and the update tool send minChunkSize = maxChunkSize = timeChunksRequired
C8_LockPinsBothBounds ==
  nm.phase = "returned" /\ LockedWithTotal /\ nm.normalized.ok =>
    /\ nm.outcome.kind = "request"
    /\ Body.timeChunksRequired = TaskData.timeChunksRequired
    /\ Body.timeChunksRequired # None
    /\ Body.minChunkSize = Body.timeChunksRequired
    /\ Body.maxChunkSize = Body.timeChunksRequired

\* the update tool with the lock, a total of 3 and explicit bounds 1 and 2 has
\* sent both bounds as 3
C8_LockOverridesExplicitBounds ==
  /\ nm.phase = "returned"
  /\ nm.tool = "reclaim_update_task"
  /\ LockedWithTotal
  /\ nm.params.timeChunksRequired = Some(3)
  /\ nm.params.minChunkSize = Some(1)
  /\ nm.params.maxChunkSize = Some(2)
  /\ nm.outcome.method = "PATCH /tasks/id"
  /\ Body.minChunkSize = Some(3)
  /\ Body.maxChunkSize = Some(3)

MinuteFields == {"durationMinutes", "minDurationMinutes", "maxDurationMinutes"}

\* the chunk field holds exactly minutes / 15
ExactChunks(minutes, chunks) ==
  minutes # None => chunks # None /\ chunks[1] * 15 = minutes[1]

\* C9: a minute-denominated duration divisible by 15 is converted to exactly
\* value / 15 chunks; one that is not divisible makes the operation fail, and
\* is never rounded or truncated
C9_MinutesConvertExactlyOrFail ==
  nm.phase = "returned" /\ nm.tool \in Tools =>
    IF \E f \in MinuteFields : nm.params[f] # None /\ nm.params[f][1] % 15 # 0
      THEN ~nm.normalized.ok /\ nm.outcome.kind = "error"
      ELSE nm.normalized.ok =>
             /\ ExactChunks(nm.params.durationMinutes, TaskData.timeChunksRequired)
             /\ nm.params.lockChunkSizeToDuration # Some(TRUE) =>
                  /\ ExactChunks(nm.params.minDurationMinutes, TaskData.minChunkSize)
                  /\ ExactChunks(nm.params.maxDurationMinutes, TaskData.maxChunkSize)
             /\ nm.outcome.kind = "request" =>
                  ExactChunks(nm.params.durationMinutes, Body.timeChunksRequired)

\* durationMinutes 60 and minDurationMinutes 30 were sent as 4 and 2 chunks
C9_SixtyMinutesAreFourChunks ==
  /\ nm.phase = "returned"
  /\ nm.tool = "reclaim_create_task"
  /\ nm.params.durationMinutes = Some(60)
  /\ nm.params.minDurationMinutes = Some(30)
  /\ nm.outcome.kind = "request"
  /\ Body.timeChunksRequired = Some(4)
  /\ Body.minChunkSize = Some(2)

CreateFlows == {"reclaim_create_task", "createTask", "createTaskAtTime"}

\* the fields of the body a caller can supply and the account can default
StringFields == {"eventCategory", "priority", "timeSchemeId", "status", "eventColor"}
OptionFields ==
  {"onDeck", "alwaysPrivate", "timeChunksRequired", "minChunkSize", "maxChunkSize"}

\* the caller supplied the field
Explicit(f) == IF f \in StringFields THEN TaskData[f] # Undefined ELSE TaskData[f] # None

\* the outcome of the same call of the client had the account held the task
\* defaults d
OutcomeUnder(d) ==
  Outcome(calls[1].op, calls[1].input, calls[1].data, calls[1].resolvedTimeZone, d,
          nm.ctx)

\* a create call that has sent its request
CreateSent ==
  /\ nm.phase = "returned"
  /\ nm.tool \in CreateFlows
  /\ nm.normalized.ok
  /\ nm.outcome.kind = "request"

\* C10 as stated: in the create flows every field the caller supplied
\* explicitly is sent with a value that does not depend on the account defaults
C10_ExplicitFieldsIgnoreDefaults ==
  CreateSent =>
    \A d \in AllDefaults :
      LET other == OutcomeUnder(d)
      IN  /\ other.kind = "request"
          /\ \A f \in StringFields \cup OptionFields :
               Explicit(f) => other.payload[f] = Body[f]

\* where the value sent for an explicit field rests on the caller's input
\* alone: a priority other than DEFAULT, a minimum given with the total, a
\* maximum given with the total and the minimum
OwnValue(f) ==
  CASE f = "priority" -> normalizeEnumValue(TaskData.priority) # "DEFAULT"
    [] f = "minChunkSize" -> Explicit("timeChunksRequired")
    [] f = "maxChunkSize" -> Explicit("timeChunksRequired") /\ Explicit("minChunkSize")
    [] OTHER -> TRUE

\* C10 amended: in the create flows an explicit eventCategory, priority other
\* than DEFAULT, onDeck, alwaysPrivate, timeSchemeId and timeChunksRequired, an
\* explicit minChunkSize given with timeChunksRequired, and an explicit
\* maxChunkSize given with timeChunksRequired and minChunkSize, are sent with a
\* value that does not depend on the account defaults
C10_ExplicitFieldsIgnoreDefaultsUnlessClamped ==
  CreateSent =>
    \A d \in AllDefaults :
      LET other == OutcomeUnder(d)
      IN  /\ other.kind = "request"
          /\ \A f \in StringFields \cup OptionFields :
               Explicit(f) /\ OwnValue(f) => other.payload[f] = Body[f]

\* an explicit minimum of 3 chunks without a total was sent as 2, the total
\* of the account defaults, and had been sent as 3 without those defaults;
\* the explicit priority P1 was sent as it is beside the default P2
C10_ExplicitMinimumClampedToDefaultTotal ==
  /\ CreateSent
  /\ nm.tool = "reclaim_create_task"
  /\ TaskData.minChunkSize = Some(3)
  /\ TaskData.timeChunksRequired = None
  /\ nm.account.defaults.timeChunksRequired = Some(2)
  /\ Body.minChunkSize = Some(2)
  /\ OutcomeUnder(EmptyDefaults).payload.minChunkSize = Some(3)

UpdateFlows == {"reclaim_update_task", "updateTask"}

\* an update call that has sent its request
UpdateSent ==
  /\ nm.phase = "returned"
  /\ nm.tool \in UpdateFlows
  /\ nm.normalized.ok
  /\ nm.outcome.kind = "request"

\* C11: the body updateTask sends holds only fields the caller supplied, a
\* supplied deadline being sent as due: no field is added from the account
\* defaults or from any other default
C11_PatchHoldsOnlySuppliedFields ==
  UpdateSent =>
    /\ \A f \in {"title", "notes", "eventCategory", "eventSubType", "priority",
                 "timeSchemeId", "status", "eventColor"} :
         Body[f] # Undefined => TaskData[f] # Undefined
    /\ \A f \in OptionFields : Body[f] # None => TaskData[f] # None
    /\ Body.due # None => TaskData.due # NoInput \/ TaskData.deadline # NoInput
    /\ Body.snoozeUntil # None => TaskData.snoozeUntil # NoInput

\* an update with a deadline alone, on an account with a default total of 4
\* chunks and a default due of 3 days, has sent the title and the due only
C11_PatchWithoutDefaults ==
  /\ UpdateSent
  /\ nm.outcome.method = "PATCH /tasks/id"
  /\ TaskData.deadline = StrLocal(2026, 1, 5, 8, 0, 0, 0)
  /\ TaskData.timeChunksRequired = None
  /\ nm.account.defaults.timeChunksRequired = Some(4)
  /\ nm.account.defaults.dueInDays = Some(3)
  /\ Body.due # None
  /\ Body.timeChunksRequired = None
  /\ Body.minChunkSize = None
  /\ Body.priority = Undefined

(***************************************************************************)
(* Properties of failing operations (SpecOps).                             *)
(***************************************************************************)
\* operation c has failed in the normalization of its input
NormalizationFailed(c) ==
  /\ calls[c].op \in Operations
  /\ calls[c].pc = "done"
  /\ calls[c].outcome.kind = "error"

\* C12: an operation whose input fails to normalize (invalid date/time,
\* unrecognized time zone) has sent no request before the failure, the
\* GET /users/current of the account lookup included
C12_NoRequestBeforeFailure ==
  \A c \in DOMAIN calls : NormalizationFailed(c) => calls[c].issued = 0

\* createTask with the deadline 2026-02-30T09:00:00 has failed after it
\* issued the GET /users/current of its lookup, and the request was answered
C12_LookupSentBeforeFailure ==
  \E c \in DOMAIN calls :
    /\ NormalizationFailed(c)
    /\ calls[c].op = "createTask"
    /\ calls[c].input = InvalidInput
    /\ calls[c].timeZone = ArgTimeZone
    /\ calls[c].issued = 1
    /\ cachedCurrentUser = Some(ServerUser)

(***************************************************************************)
(* Properties of the errors of the client functions (SpecNorm).            *)
(***************************************************************************)
\* a client function has thrown
ClientFailed ==
  /\ nm.phase = "returned"
  /\ nm.normalized.ok
  /\ nm.outcome.kind = "error"

\* C13: an error raised while createTask, createTaskAtTime or updateTask
\* normalize their input reaches the caller as it was raised, the same kind
\* of error with the same message
C13_NormalizationErrorUnmodified ==
  ClientFailed => ~nm.outcome.wrapped

\* createTask with the deadline 2026-02-30T09:00:00 has thrown the error of
\* handleApiError, a ReclaimError "API Call Failed (createTask): ..."
C13_CreateTaskErrorWrapped ==
  /\ ClientFailed
  /\ nm.tool = "reclaim_create_task"
  /\ TaskData.deadline = StrLocal(2026, 2, 30, 9, 0, 0, 0)
  /\ nm.timeZone = "America/Los_Angeles"
  /\ nm.outcome = handleApiError("Invalid date/time")

(***************************************************************************)
(* Properties of the cache of the account lookup (Spec).                   *)
(***************************************************************************)
\* request p was answered with a user record
Succeeded(p) == promises[p].state = "fulfilled" /\ promises[p].value # None

\* C14: the account lookup issues at most one GET /users/current over the
\* life of the process
C14_AtMostOneRequest ==
  Len(promises) <= 1

\* the request of the bootstrap has failed, and a second GET /users/current,
\* issued by an operation, was answered with the user record
C14_SecondRequestAfterFailure ==
  /\ Len(promises) = 2
  /\ promises[1].state = "rejected"
  /\ Succeeded(2)
  /\ \E c \in DOMAIN calls : calls[c].op \in Operations /\ calls[c].issued = 1

\* in this step a lookup of call c (fetchAccountTimeZone or fetchTaskDefaults)
\* comes back to its caller
LookupReturns(c) ==
  /\ calls'[c].pc = ReturnPc(calls'[c].op)
  /\ \/ c \notin DOMAIN calls
     \/ calls[c].pc = "fx_resume"
     \/ calls[c].stage # calls'[c].stage

\* the value the lookup hands to its caller
Returns(c, user) ==
  /\ ~calls'[c].failed
  /\ calls'[c].stage = "tz" => calls'[c].accountTimeZone = Trim(user.timezone)
  /\ calls'[c].stage = "defaults" => calls'[c].defaults = user.defaults[1]

\* what a step does once the user record is cached
CacheIsStable ==
  /\ cachedCurrentUser' = cachedCurrentUser
  /\ Truthy(cachedAccountTimeZone) => cachedAccountTimeZone' = cachedAccountTimeZone
  /\ cachedTaskDefaults # None => cachedTaskDefaults' = cachedTaskDefaults
  /\ Truthy(cachedAccountTimeZone') =>
       cachedAccountTimeZone' = Trim(cachedCurrentUser[1].timezone)
  /\ cachedTaskDefaults' # None => cachedTaskDefaults' = cachedCurrentUser[1].defaults
  /\ promises' = promises
  /\ inflight' \subseteq inflight
  /\ \A c \in DOMAIN calls' : LookupReturns(c) => Returns(c, cachedCurrentUser[1])

\* C15: once GET /users/current has succeeded, the cached user record, the
\* cached account zone and the cached task defaults never change any more,
\* and every lookup that returns afterwards hands back the zone and the
\* defaults of that record without a request being issued
C15_CachesFixedAtSuccess ==
  [][cachedCurrentUser # None =>
       /\ CacheIsStable
       /\ cachedAccountTimeZone' = cachedAccountTimeZone
       /\ cachedTaskDefaults' = cachedTaskDefaults]_vars

\* the second request has been answered with the user record while a third
\* was in flight; the third has failed afterwards, and the operation that
\* awaits it is about to have its lookup fail though the record is cached
C15_LookupFailsAfterSuccess ==
  /\ Len(promises) = 3
  /\ Succeeded(2)
  /\ cachedCurrentUser # None
  /\ promises[3].state = "rejected"
  /\ \E c \in DOMAIN calls :
       /\ calls[c].op \in Operations
       /\ calls[c].pc = "fcu_resume"
       /\ calls[c].awaiting = 3

(***************************************************************************)
(* Properties of failed lookups (Spec).                                    *)
(***************************************************************************)
\* in this step operation c, a lookup of which has failed, returns
ReturnsAfterFailedLookup(c) ==
  /\ calls[c].op \in Operations
  /\ calls[c].pc # "done"
  /\ calls'[c].pc = "done"
  /\ calls[c].rejected # {}

\* what the operation sends when the failed lookups gave it nothing: the zone
\* is the first of MCP_DEFAULT_TIMEZONE, the cached account zone and the
\* machine zone, and no account defaults are applied
SentWithout(r) ==
  Outcome(r.op, r.input, r.data,
          IF "tz" \in r.rejected THEN Undefined ELSE r.resolvedTimeZone,
          IF "defaults" \in r.rejected THEN EmptyDefaults ELSE r.defaults,
          Ctx(envTimeZone, cachedAccountTimeZone, MachineTimeZone, FixedNow))

\* C16: a failed account lookup does not fail createTask, createTaskAtTime,
\* updateTask or logWorkForTask: the operation sends its task request, built
\* with the zone of the remaining sources and without account defaults
C16_LookupFailureTolerated ==
  [][\A c \in DOMAIN calls :
       ReturnsAfterFailedLookup(c) =>
         /\ calls'[c].outcome.kind = "request"
         /\ calls'[c].outcome = SentWithout(calls[c])
         /\ "tz" \in calls[c].rejected =>
              SentInstant(calls'[c]) =
                InstantIn(resolveTimeZone(Undefined, envTimeZone,
                                          cachedAccountTimeZone, MachineTimeZone))]_vars

\* createTask without a timeZone argument and without MCP_DEFAULT_TIMEZONE,
\* both of whose lookups failed, has sent its request with the due read in
\* the machine zone and without the defaults of the account
C16_SentAfterFailedLookups ==
  \E c \in DOMAIN calls :
    /\ calls[c].op = "createTask"
    /\ calls[c].pc = "done"
    /\ calls[c].timeZone = Undefined
    /\ calls[c].rejected = {"tz", "defaults"}
    /\ calls[c].outcome.kind = "request"
    /\ calls[c].outcome.method = "POST /tasks"
    /\ SentInstant(calls[c]) = InstantIn(MachineTimeZone)
    /\ calls[c].outcome.payload.priority # AccountDefaults.priority
    /\ calls[c].outcome.payload.timeChunksRequired # AccountDefaults.timeChunksRequired

(***************************************************************************)
(* Properties of the errors of parseDeadline (SpecTime).                   *)
(***************************************************************************)
\* the days of month m of year y
DaysInMonth(y, m) ==
  IF m = 2
    THEN IF (y % 4 = 0 /\ y % 100 # 0) \/ y % 400 = 0 THEN 29 ELSE 28
    ELSE IF m \in {4, 6, 9, 11} THEN 30 ELSE 31

\* the string names no date of the calendar or no time of the day
OutOfRange(p) ==
  \/ p.month \notin 1..12
  \/ p.day \notin 1..DaysInMonth(p.year, p.month)
  \/ p.hour \notin 0..23
  \/ p.minute \notin 0..59
  \/ p.second \notin 0..59
  \/ p.ms \notin 0..999

\* the call has returned from a string without offset
OffsetLessCase ==
  /\ tm.phase = "returned"
  /\ tm.input.type = "string"
  /\ tm.input.form \in {"local", "date"}

\* C17: parseDeadline rejects every local date/time without offset one of
\* whose components is out of range or whose day does not exist in its
\* month: it throws an error and returns no instant
C17_InvalidLocalDateTimeRejected ==
  OffsetLessCase /\ OutOfRange(tm.input) =>
    /\ ~tm.result.ok
    /\ tm.result.error \in {"Invalid month in date/time", "Invalid day in date/time",
                            "Invalid hour in date/time", "Invalid minute in date/time",
                            "Invalid second in date/time", "Invalid date/time"}

\* 2026-02-30T09:00:00 read in America/Los_Angeles has been rejected
C17_FebruaryThirtiethRejected ==
  /\ OffsetLessCase
  /\ tm.input = StrLocal(2026, 2, 30, 9, 0, 0, 0)
  /\ tm.timeZone = "America/Los_Angeles"
  /\ tm.result = Fail("Invalid date/time")

\* C18: a local date/time without offset whose resolved zone is no time zone
\* yields no instant: parseDeadline throws, and when the string names a date
\* and a time of day the error is that of the invalid time zone; no later
\* source of the zone is tried
C18_UnknownZoneRejected ==
  OffsetLessCase /\ UsedZone \notin ValidZones =>
    /\ ~tm.result.ok
    /\ ~OutOfRange(tm.input) => tm.result = Fail("Invalid timeZone")

\* 2026-01-05T08:00:00 without a timeZone argument, with MCP_DEFAULT_TIMEZONE
\* Mars/Phobos and the account zone America/New_York in the cache, has been
\* rejected for its time zone
C18_UnknownProcessZoneRejected ==
  /\ OffsetLessCase
  /\ tm.input = StrLocal(2026, 1, 5, 8, 0, 0, 0)
  /\ tm.timeZone = Undefined
  /\ tm.ctx.env = "Mars/Phobos"
  /\ tm.ctx.cached = "America/New_York"
  /\ tm.result = Fail("Invalid timeZone")

(***************************************************************************)
(* Properties of date-only inputs (SpecTime).                              *)
(***************************************************************************)
\* 00:00:00 of the requested date, in seconds on the naive time line
LocalMidnight == DateUTC(tm.input.year, tm.input.month, tm.input.day, 0, 0, 0)

\* C19: a date without a time of day resolves to the UTC instant at which the
\* resolved zone shows 00:00:00.000 of that date, the instant the same date
\* with the time 00:00:00.000 written out resolves to
C19_DateOnlyIsLocalMidnight ==
  LocalCase /\ tm.input.form = "date" =>
    /\ tm.result.ok
    /\ tm.result =
         parseDeadline(StrLocal(tm.input.year, tm.input.month, tm.input.day, 0, 0, 0, 0),
                       tm.timeZone, tm.ctx)
    /\ FromISOString(tm.result.value).ms = 0
    /\ Rendering(FromISOString(tm.result.value).s) = LocalMidnight

\* on an engine that renders the hour after midnight as 24, 2026-01-05 in
\* America/Los_Angeles has returned 2026-01-04T08:00:00.000Z, the midnight
\* of the day before
C19_MidnightOfTheDayBefore ==
  /\ LocalCase
  /\ hourCycle = "h24"
  /\ tm.input = StrDate(2026, 1, 5)
  /\ tm.timeZone = "America/Los_Angeles"
  /\ tm.result = Ok(Iso(2026, 1, 4, 8, 0, 0, 0))

(***************************************************************************)
(* Properties of the task listing (SpecList).                              *)
(***************************************************************************)
\* the tool with filter=active, or the resource, has returned the tasks
ActiveListed ==
  /\ lm.phase = "returned"
  /\ lm.filter = "active"
  /\ lm.answer = "array"

\* the places of the answer whose task is not deleted and neither archived
\* nor cancelled
KeptPlaces ==
  {i \in DOMAIN lm.data.items :
     /\ ~lm.data.items[i].null
     /\ lm.data.items[i].deleted # Some(TRUE)
     /\ lm.data.items[i].status \notin {"ARCHIVED", "CANCELLED"}}

\* C20: filterActiveTasks, and with it the tasks://active resource and
\* reclaim_list_tasks with filter=active, returns exactly the tasks that are
\* not deleted and whose status is neither ARCHIVED nor CANCELLED, in the
\* order of the answer; a COMPLETE task that is not deleted is kept
C20_ActiveTasksExactlyKept ==
  ActiveListed =>
    LET out == lm.result.tasks
    IN  /\ ~lm.result.isError
        /\ out = filterActiveTasks(lm.data).items
        /\ \A k \in DOMAIN out : out[k].id \in KeptPlaces /\ out[k] = lm.data.items[out[k].id]
        /\ \A i \in KeptPlaces : \E k \in DOMAIN out : out[k].id = i
        /\ \A j, k \in DOMAIN out : j < k => out[j].id < out[k].id
        /\ \A i \in DOMAIN lm.data.items :
             LET t == lm.data.items[i]
             IN  ~t.null /\ t.status = "COMPLETE" /\ t.deleted # Some(TRUE) =>
                   \E k \in DOMAIN out : out[k] = t

\* the resource, answered with a deleted task, a COMPLETE task and a
\* cancelled one, has returned the COMPLETE task alone
C20_CompleteTaskKept ==
  /\ ActiveListed
  /\ lm.entry = "tasks://active"
  /\ Len(lm.data.items) = 3
  /\ lm.data.items[1].deleted = Some(TRUE)
  /\ lm.data.items[2] = [Task("COMPLETE", Some(FALSE)) EXCEPT !.id = 2]
  /\ lm.data.items[3].status = "CANCELLED"
  /\ lm.result.tasks = <<lm.data.items[2]>>

(***************************************************************************)
(* Properties of the startup and of the HTTP sessions (SpecServer).        *)
(***************************************************************************)
HttpStarted == sv.phase \in {"http-session", "http-stateless"}

\* C21: when MCP_TRANSPORT is not set the server starts the stdio
\* transport, whatever the other environment variables are, and the HTTP
\* transport is started only when MCP_TRANSPORT is http (in any letter case).
C21_StdioUnlessTransportHttp ==
  /\ (sv.phase \in {"stdio", "http-session", "http-stateless"}
        /\ sv.env.MCP_TRANSPORT = Undefined)
       => sv.phase = "stdio"
  /\ HttpStarted => ToLowerCase(sv.env.MCP_TRANSPORT) = "http"

\* MCP_HTTP_PORT alone starts the HTTP server
C21_HttpStartedByPortAlone ==
  /\ sv.phase = "http-session"
  /\ sv.env.MCP_TRANSPORT = Undefined
  /\ sv.env.MCP_HTTP_PORT = "3000"
  /\ sv.env.RECLAIM_API_KEY = "key"

\* C30: in session mode every request the routes serve is handed to a
\* transport only if its mcp-session-id is registered at that moment or it
\* is an initialize POST carrying no session id; without a session id and
\* not an initialize POST it is answered 400 Missing session, with a session
\* id that is not registered it is answered 404 Unknown session, and in
\* both cases it reaches no transport and registers no session.
C30_OnlyRegisteredOrInitializeHanded ==
  [][sv'.served # sv.served =>
       LET request == sv'.request
           response == sv'.response
           carriesId == request.sessionId # Undefined /\ request.sessionId # ""
           registered == request.sessionId \in sv.transports
           initializing == request.method = "POST" /\ request.initialize
           refused == /\ response.handled = "none"
                      /\ sv'.transports = sv.transports
                      /\ sv'.issued = sv.issued
       IN  /\ response.handled # "none" => registered \/ (initializing /\ ~carriesId)
           /\ (~carriesId /\ ~initializing)
                => response.status = 400 /\ response.message = "Missing session" /\ refused
           /\ (carriesId /\ ~registered)
                => response.status = 404 /\ response.message = "Unknown session" /\ refused]_vars

\* an initialize POST carrying the identifier of a session that was closed
\* is answered 404 while another session is registered
C30_ClosedSessionUnknown ==
  /\ sv.phase = "http-session"
  /\ sv.issued = 2
  /\ sv.transports = {SessionId(2)}
  /\ sv.request = [method |-> "POST", sessionId |-> SessionId(1), initialize |-> TRUE]
  /\ sv.response.status = 404
  /\ sv.response.handled = "none"

(***************************************************************************)
(* Properties of the local time resolution, continued (SpecTime).          *)
(***************************************************************************)
\* the offsets the zone takes lie at most an hour apart
ShiftsAtMostOneHour(zone) ==
  \A a, b \in ZoneOffsets(zone) : a - b <= 3600

\* C22: in a zone whose offset changes by at most an hour, a valid local
\* date/time the zone shows at least once resolves to an instant the zone
\* renders as exactly the requested year, month, day, hour, minute and
\* second (the milliseconds kept): the candidates built from the first
\* approximation and its one-hour neighbours hold a matching instant.
C22_OccurringLocalTimeRendersExactly ==
  LocalCase /\ ShiftsAtMostOneHour(UsedZone) /\ Occurrences # {} =>
    /\ tm.result.ok
    /\ Rendering(FromISOString(tm.result.value).s) = RequestedLocal
    /\ FromISOString(tm.result.value).ms = tm.input.ms
    /\ LET utcGuess == Inst(RequestedLocal, tm.input.ms)
           candidates == Candidates(utcGuess, CandidateOffsets(utcGuess, UsedZone),
                                    UsedZone, UTCParts(RequestedLocal))
       IN  \E i \in DOMAIN candidates :
             /\ candidates[i].matches
             /\ Rendering(candidates[i].date.s) = RequestedLocal

\* on an engine that renders the hour after midnight as 24,
\* 2026-10-04T00:30:00 in Europe/Berlin, which the zone shows once, at
\* 2026-10-03T22:30:00.000Z, has returned 2026-10-02T22:30:00.000Z: no
\* candidate matches, and the candidate of the least rendering is a day early
C22_BerlinHourAfterMidnight ==
  /\ LocalCase
  /\ hourCycle = "h24"
  /\ tm.input = StrLocal(2026, 10, 4, 0, 30, 0, 0)
  /\ tm.timeZone = "Europe/Berlin"
  /\ Occurrences = {RequestedLocal - 7200}
  /\ tm.result = Ok(Iso(2026, 10, 2, 22, 30, 0, 0))

(***************************************************************************)
(* Properties of the dates and chunks of the request bodies (SpecNorm).    *)
(***************************************************************************)
\* a create or update call that has sent its request
RequestSent ==
  /\ nm.phase = "returned"
  /\ nm.normalized.ok
  /\ nm.outcome.kind = "request"

\* C23: in createTask, createTaskAtTime and updateTask a supplied deadline
\* is sent as the due, resolved in the zone of the call, whatever due was
\* supplied and whatever due the defaults give, and the body holds no
\* deadline; every body the two create flows send holds a due.
C23_DeadlineSupersedesDue ==
  /\ (RequestSent /\ TaskData.deadline # NoInput) =>
       /\ parseDeadline(TaskData.deadline, ClientZone, nm.ctx).ok
       /\ Body.due = Some(parseDeadline(TaskData.deadline, ClientZone, nm.ctx).value)
  /\ RequestSent => Body.deadline = NoInput
  /\ CreateSent => Body.due # None

\* createTask given the deadline 2026-01-05T08:00:00 and the due 2026-01-07
\* in America/Los_Angeles, on an account with a default due of 3 days, has
\* sent the due 2026-01-05T16:00:00.000Z
C23_DeadlineSentOverSuppliedDue ==
  /\ RequestSent
  /\ nm.tool = "createTask"
  /\ TaskData.deadline = StrLocal(2026, 1, 5, 8, 0, 0, 0)
  /\ TaskData.due = StrDate(2026, 1, 7)
  /\ nm.timeZone = "America/Los_Angeles"
  /\ nm.account.defaults.dueInDays = Some(3)
  /\ Body.due = Some(Iso(2026, 1, 5, 16, 0, 0, 0))
  /\ Body.deadline = NoInput

\* a task at a time has been sent
AtTimeSent == RequestSent /\ nm.outcome.method = "POST /tasks/at-time"

\* the start instant sent beside the body
StartInstant == FromISOString(nm.outcome.query[1])

\* C24: createTaskAtTime given neither a deadline nor a due sends as due
\* the resolved start instant plus 15 minutes times the timeChunksRequired
\* of the body; the default due-offset of the account in days, else one
\* day, is added to the start only when the body has no positive count.
C24_DueIsStartPlusChunks ==
  (AtTimeSent /\ TaskData.deadline = NoInput /\ TaskData.due = NoInput) =>
    /\ nm.outcome.query = Some(parseDeadline(nm.params.startTime, ClientZone, nm.ctx).value)
    /\ Body.due # None
    /\ DiffMs(FromISOString(Body.due[1]), StartInstant) =
         IF Body.timeChunksRequired # None /\ Body.timeChunksRequired[1] > 0
           THEN 15 * 60000 * Body.timeChunksRequired[1]
         ELSE IF Positive(nm.account.defaults.dueInDays)
           THEN 86400000 * nm.account.defaults.dueInDays[1]
         ELSE 86400000

\* a task at 2026-01-05T09:00:00 in America/Los_Angeles without chunks, on
\* an account with a default total of 4 chunks and a default due of 3 days,
\* has been sent with the due 2026-01-05T18:00:00.000Z
C24_DueOneHourAfterStart ==
  /\ AtTimeSent
  /\ nm.tool = "createTaskAtTime"
  /\ TaskData.deadline = NoInput
  /\ TaskData.due = NoInput
  /\ TaskData.timeChunksRequired = None
  /\ nm.account.defaults.timeChunksRequired = Some(4)
  /\ nm.account.defaults.dueInDays = Some(3)
  /\ nm.outcome.query = Some(Iso(2026, 1, 5, 17, 0, 0, 0))
  /\ Body.timeChunksRequired = Some(4)
  /\ Body.due = Some(Iso(2026, 1, 5, 18, 0, 0, 0))

\* C25: in the create flows the timeChunksRequired sent is the caller's
\* explicit value when given; otherwise the default total of the account
\* when it is positive; otherwise the larger of the explicit minimum and
\* maximum chunk bounds when one is given; otherwise 1.
C25_TotalChunksFallbackOrder ==
  CreateSent =>
    Body.timeChunksRequired =
      IF TaskData.timeChunksRequired # None THEN TaskData.timeChunksRequired
      ELSE IF nm.account.defaults.timeChunksRequired # None
                /\ nm.account.defaults.timeChunksRequired[1] > 0
        THEN nm.account.defaults.timeChunksRequired
      ELSE IF TaskData.minChunkSize # None /\ TaskData.maxChunkSize # None
        THEN IF TaskData.minChunkSize[1] > TaskData.maxChunkSize[1]
               THEN TaskData.minChunkSize ELSE TaskData.maxChunkSize
      ELSE IF TaskData.minChunkSize # None THEN TaskData.minChunkSize
      ELSE IF TaskData.maxChunkSize # None THEN TaskData.maxChunkSize
      ELSE Some(1)

\* a task with an explicit maximum of 3 chunks and no total, on an account
\* whose default total is 0, has been sent with a total of 3 chunks
C25_TotalFromExplicitMaximum ==
  /\ CreateSent
  /\ TaskData.timeChunksRequired = None
  /\ TaskData.minChunkSize = None
  /\ TaskData.maxChunkSize = Some(3)
  /\ nm.account.defaults.timeChunksRequired = Some(0)
  /\ Body.timeChunksRequired = Some(3)

(***************************************************************************)
(* Properties of the relative deadlines (SpecTime).                        *)
(***************************************************************************)
\* C26: a positive number of days N resolves to the instant exactly N times
\* 24 hours after the instant of evaluation, whatever the zones are, the
\* zone of the machine and a daylight-saving transition within those days
\* included.
C26_RelativeDaysAreFixedHours ==
  (tm.phase = "returned" /\ tm.input.type = "number" /\ tm.input.days > 0) =>
    /\ tm.result.ok
    /\ DiffMs(FromISOString(tm.result.value), tm.ctx.now) = tm.input.days * 86400000

\* on a machine in America/Los_Angeles, 1 day from 2026-03-07T18:30:15.250Z
\* has resolved to 2026-03-08T17:30:15.250Z, 23 hours later
C26_DayAcrossTransitionIsShorter ==
  /\ tm.phase = "returned"
  /\ tm.input = NumDays(1)
  /\ tm.ctx.machine = "America/Los_Angeles"
  /\ tm.ctx.now = Inst(DateUTC(2026, 3, 7, 18, 30, 15), 250)
  /\ tm.result = Ok(Iso(2026, 3, 8, 17, 30, 15, 250))
  /\ DiffMs(FromISOString(tm.result.value), tm.ctx.now) = 23 * 3600000

(***************************************************************************)
(* Properties of a failed account lookup (Spec).                           *)
(***************************************************************************)
\* C27: a GET /users/current that fails or answers with a body that is no
\* object caches nothing, and the handle of the request in flight is cleared,
\* so that a lookup issued after the failure never waits on the failed
\* request: a call suspended in the lookup awaits a request that is still
\* unanswered, and a call resumes from a settled request only if it awaited
\* that request before it settled.
C27_FailedLookupIsNotReused ==
  /\ [](/\ \A c \in DOMAIN calls :
             calls[c].pc = "fcu_wait" => promises[calls[c].awaiting].state = "pending"
        /\ (microtasks = <<>> /\ cachedCurrentUser = None /\ cachedCurrentUserPromise # 0)
             => promises[cachedCurrentUserPromise].state = "pending")
  /\ [][/\ \A p \in DOMAIN promises :
             (promises[p].state = "pending" /\ promises'[p].state # "pending"
                /\ (promises'[p].state = "rejected" \/ promises'[p].value = None))
               => /\ cachedCurrentUser' = cachedCurrentUser
                  /\ cachedAccountTimeZone' = cachedAccountTimeZone
                  /\ cachedTaskDefaults' = cachedTaskDefaults
        /\ \A c \in DOMAIN calls' :
             (calls'[c].pc = "fcu_resume"
                /\ (c \notin DOMAIN calls \/ calls[c].pc # "fcu_resume"))
               => c \in DOMAIN calls /\ calls[c].pc = "fcu_wait"]_vars

\* the request of the bootstrap has failed and the bootstrap has yet to run
\* its finally block: an operation called at that point has found the handle
\* of the failed request and awaits it
C27_LateCallAwaitsFailedRequest ==
  /\ Len(promises) = 1
  /\ promises[1].state = "rejected"
  /\ cachedCurrentUser = None
  /\ cachedCurrentUserPromise = 1
  /\ calls[1].pc = "fcu_resume"
  /\ \E c \in DOMAIN calls :
       /\ calls[c].op \in Operations
       /\ calls[c].pc = "fcu_resume"
       /\ calls[c].awaiting = 1
       /\ calls[c].issued = 0
       /\ \A i \in DOMAIN promises[1].waiters : promises[1].waiters[i] # c

(***************************************************************************)
(* Properties of the updates and of the event categories (SpecNorm).       *)
(***************************************************************************)
\* the task data hold no field once normalized: nothing is given but,
\* possibly, a time scheme that is the empty string
NoFieldLeft(data) ==
  /\ \A f \in {"title", "notes", "eventCategory", "eventSubType", "priority",
               "status", "eventColor"} :
       data[f] = Undefined
  /\ data.timeSchemeId \in {Undefined, ""}
  /\ \A f \in OptionFields : data[f] = None
  /\ \A f \in {"deadline", "due", "snoozeUntil"} : data[f] = NoInput

\* C28: an update with no field left after normalization sends no PATCH:
\* the reclaim_update_task tool fails with its own error and calls no client
\* function, updateTask reads the task with a GET; every PATCH sent holds a
\* field.
C28_EmptyUpdateNeverPatches ==
  (nm.phase = "returned" /\ nm.tool \in UpdateFlows /\ nm.normalized.ok) =>
    /\ nm.outcome.method = "PATCH /tasks/id" =>
         /\ ~NoFieldLeft(TaskData)
         /\ \/ \E f \in {"title", "notes", "eventCategory", "eventSubType",
                         "priority", "timeSchemeId", "status", "eventColor"} :
                 Body[f] # Undefined
            \/ \E f \in OptionFields \cup {"due", "snoozeUntil"} : Body[f] # None
    /\ (nm.tool = "reclaim_update_task" /\ NoFieldLeft(TaskData)) =>
         /\ nm.outcome.kind = "error"
         /\ ~nm.outcome.wrapped
         /\ nm.outcome.error = "Update requires at least one field to change besides taskId"
    /\ (nm.tool = "updateTask" /\ NoFieldLeft(TaskData)) =>
         /\ nm.outcome.kind = "request"
         /\ nm.outcome.method = "GET /tasks/id"

\* updateTask given a time scheme that is the empty string and nothing
\* else has read the task
C28_EmptyPatchReadsTask ==
  /\ nm.phase = "returned"
  /\ nm.tool = "updateTask"
  /\ TaskData = [EmptyTask EXCEPT !.timeSchemeId = ""]
  /\ nm.outcome.kind = "request"
  /\ nm.outcome.method = "GET /tasks/id"
  /\ PayloadIsEmpty(Body)

\* C29: a create body whose caller gave no eventCategory and whose
\* eventSubType is a personal sub-type has the eventCategory PERSONAL,
\* whatever the spelling of the sub-type given and whatever the default
\* category of the account
C29_PersonalSubTypeHasPersonalCategory ==
  (/\ RequestSent
   /\ nm.tool \in CreateFlows
   /\ nm.params.eventCategory = Undefined
   /\ Body.eventSubType \in PERSONAL_SUBTYPES) =>
    Body.eventCategory = "PERSONAL"

\* createTask given the sub-type "errands" and no category, on an account
\* whose default category is not PERSONAL, has sent ERRAND with WORK
C29_ErrandsAliasSentAsWork ==
  /\ RequestSent
  /\ nm.tool = "createTask"
  /\ nm.params.eventCategory = Undefined
  /\ nm.params.eventSubType = "errands"
  /\ nm.account.defaults.category \in {Undefined, " Work "}
  /\ Body.eventSubType = "ERRAND"
  /\ Body.eventCategory = "WORK"

====
